---------------------------- MODULE Spec2Model ----------------------------
(***************************************************************************)
(* A model of svg-stacker (src/main.go): the ingestion pipeline            *)
(* CreateStackedSVG -> loadDiagrams -> parseSVG -> cleanDiagramContent ->  *)
(* prettyPrintXML -> buildStackedSVG.                                      *)
(*                                                                         *)
(* Text is modelled character by character: a Go string is a TLA+ string,  *)
(* on which TLC evaluates Len, SubSeq and \o.  Positions are 1-based, so a *)
(* Go index p is the position p+1 here and Go's "not found" (-1) is 0.     *)
(***************************************************************************)
EXTENDS Integers, Sequences, FiniteSets, TLC

VARIABLES
    dir,        \* the *.svg files of s.inputDir, in the order filepath.Glob lists them
    title,      \* s.title
    diagrams,   \* s.diagrams: level -> DiagramInfo, defined on the levels loaded
    pc,         \* where the run is
    idx,        \* loadDiagrams' position in the file list (next file to scan)
    err,        \* the error being returned ("" is nil)
    out,        \* what CreateStackedSVG has written to s.outputFile or stdout
    hist,       \* history: for each scanned file, what loadDiagrams did with it
    arg,        \* the argument of the function under check (function specifications)
    ret,        \* its result
    page        \* the composite document loaded in a browser: its elements and the
                \* state of its script

vars == <<dir, title, diagrams, pc, idx, err, out, hist, arg, ret, page>>

\* no document is loaded
NoPage == [loaded |-> FALSE]

(***************************************************************************)
(* Bounds of the model.                                                    *)
(***************************************************************************)
MaxFiles == 2
MaxNameChunks == 3
MaxDigits == 2
MaxChunks == 2
MaxCalls == 2

(***************************************************************************)
(* package strings                                                         *)
(***************************************************************************)
Min(S) == CHOOSE x \in S : \A y \in S : x <= y
Max(S) == CHOOSE x \in S : \A y \in S : x >= y

\* the string s[i..j] (1-based, inclusive), clipped to s
Sub(s, i, j) ==
    LET a == IF i < 1 THEN 1 ELSE i
        b == IF j > Len(s) THEN Len(s) ELSE j
    IN  IF a > b THEN "" ELSE SubSeq(s, a, b)

At(s, i) == Sub(s, i, i)

From(s, i) == Sub(s, i, Len(s))

HasPrefixAt(s, sub, i) ==
    /\ i >= 1
    /\ i + Len(sub) - 1 <= Len(s)
    /\ SubSeq(s, i, i + Len(sub) - 1) = sub

\* strings.Index from a position: the first position >= from where sub occurs,
\* 0 when there is none
IndexFrom(s, sub, from) ==
    LET last == Len(s) - Len(sub) + 1
    IN  IF \E i \in from .. last : HasPrefixAt(s, sub, i)
        THEN CHOOSE i \in from .. last :
                /\ HasPrefixAt(s, sub, i)
                /\ \A j \in from .. (i - 1) : ~HasPrefixAt(s, sub, j)
        ELSE 0

Index(s, sub) == IndexFrom(s, sub, 1)

LastIndex(s, sub) ==
    LET last == Len(s) - Len(sub) + 1
    IN  IF \E i \in 1 .. last : HasPrefixAt(s, sub, i)
        THEN CHOOSE i \in 1 .. last :
                /\ HasPrefixAt(s, sub, i)
                /\ \A j \in (i + 1) .. last : ~HasPrefixAt(s, sub, j)
        ELSE 0

Contains(s, sub) == Index(s, sub) # 0

HasSuffix(s, suf) ==
    Len(suf) <= Len(s) /\ Sub(s, Len(s) - Len(suf) + 1, Len(s)) = suf

TrimSuffix(s, suf) ==
    IF HasSuffix(s, suf) THEN Sub(s, 1, Len(s) - Len(suf)) ELSE s

Upper == <<"A","B","C","D","E","F","G","H","I","J","K","L","M",
           "N","O","P","Q","R","S","T","U","V","W","X","Y","Z">>
Lower == <<"a","b","c","d","e","f","g","h","i","j","k","l","m",
           "n","o","p","q","r","s","t","u","v","w","x","y","z">>

LowerChar(c) ==
    IF \E k \in 1..26 : Upper[k] = c
    THEN Lower[CHOOSE k \in 1..26 : Upper[k] = c]
    ELSE c

UpperChar(c) ==
    IF \E k \in 1..26 : Lower[k] = c
    THEN Upper[CHOOSE k \in 1..26 : Lower[k] = c]
    ELSE c

RECURSIVE ToLower(_)
ToLower(s) == IF s = "" THEN "" ELSE LowerChar(Head(s)) \o ToLower(Tail(s))

\* unicode.IsSpace on the characters of the model; also regexp's \s
Space == {" ", "\n", "\t", "\r"}

\* the first position >= from whose character is not in C; Len(s)+1 when there
\* is none
SkipWhile(s, from, C) ==
    IF \E j \in from .. Len(s) : At(s, j) \notin C
    THEN CHOOSE j \in from .. Len(s) :
            /\ At(s, j) \notin C
            /\ \A i \in from .. (j - 1) : At(s, i) \in C
    ELSE IF from > Len(s) + 1 THEN from ELSE Len(s) + 1

TrimSpace(s) ==
    LET a == SkipWhile(s, 1, Space)
        ends == {j \in 1..Len(s) : At(s, j) \notin Space}
    IN  IF ends = {} THEN "" ELSE Sub(s, a, Max(ends))

(***************************************************************************)
(* extractLevel                                                            *)
(***************************************************************************)
\* extractLevel without the strings.ToLower of the name: a variant the
\* classifier property tells apart from extractLevel
extractLevel_caseSensitive(filename) ==
    IF Contains(filename, "context") THEN "context"
    ELSE IF Contains(filename, "container") THEN "container"
    ELSE IF Contains(filename, "component") THEN "component"
    ELSE IF Contains(filename, "code") THEN "code"
    ELSE "unknown"

extractLevel(filename) ==
    LET lower == ToLower(filename)
    IN  IF Contains(lower, "context") THEN "context"
        ELSE IF Contains(lower, "container") THEN "container"
        ELSE IF Contains(lower, "component") THEN "component"
        ELSE IF Contains(lower, "code") THEN "code"
        ELSE "unknown"


(***************************************************************************)
(* package encoding/xml: the Decoder in its default (strict) mode, as      *)
(* ValidateXML and prettyPrintXML drive it.  A token is a record:          *)
(*   [k |-> "start", name, attr]   [k |-> "end", name]                     *)
(*   [k |-> "chardata", data]      [k |-> "comment", data]                 *)
(*   [k |-> "procinst", target, inst]   [k |-> "directive", data]          *)
(* with name = [space, local] and attr a sequence of [name, value].        *)
(***************************************************************************)
Letters == {Upper[k] : k \in 1..26} \cup {Lower[k] : k \in 1..26}
Digits == {"0","1","2","3","4","5","6","7","8","9"}

\* isNameByte
NameByte == Letters \cup Digits \cup {"_", ":", ".", "-"}
\* isName: what a name may start with
NameStart == Letters \cup {"_", ":"}

xmlnsPrefix == "xmlns"
xmlPrefix == "xml"
xmlURL == "http://www.w3.org/XML/1998/namespace"

\* the predefined entities, and the character references the Encoder itself writes
EntityNames == <<"lt", "gt", "amp", "apos", "quot", "#34", "#39", "#xA", "#x9", "#xD">>
EntityTexts == <<"<", ">", "&", "'", "\"", "\"", "'", "\n", "\t", "\r">>

\* Decoder.text's handling of & : the text with every reference replaced, or an
\* error for a reference that is not terminated or not known
RECURSIVE Unescape(_)
Unescape(raw) ==
    LET bad == [e |-> "invalid character entity", s |-> ""]
        join(a, k, rest) ==
            IF rest.e # "" THEN rest
            ELSE [e |-> "", s |-> Sub(raw, 1, a - 1) \o EntityTexts[k] \o rest.s]
        entity(a, semi, known) ==
            IF known = {} THEN bad
            ELSE join(a, Min(known), Unescape(From(raw, semi + 1)))
        reference(a, semi) ==
            IF semi = 0 THEN bad
            ELSE entity(a, semi, {k \in 1..Len(EntityNames) :
                                    EntityNames[k] = Sub(raw, a + 1, semi - 1)})
        from(a) ==
            IF a = 0 THEN [e |-> "", s |-> raw]
            ELSE reference(a, IndexFrom(raw, ";", a + 1))
    IN  from(Index(raw, "&"))

\* Decoder.name followed by the split of Decoder.nsname, reading at position p
nsname(s, p) ==
    LET split(n, nm, c) ==
            IF c = 0 \/ c = 1 \/ c = Len(nm)
            THEN [ok |-> TRUE, e |-> "", n |-> n, name |-> [space |-> "", local |-> nm]]
            ELSE [ok |-> TRUE, e |-> "", n |-> n,
                  name |-> [space |-> Sub(nm, 1, c - 1), local |-> From(nm, c + 1)]]
        named(n, nm) ==
            IF At(nm, 1) \notin NameStart
            THEN [ok |-> FALSE, e |-> "invalid XML name", n |-> n]
            ELSE IF Cardinality({i \in 1..Len(nm) : SubSeq(nm, i, i) = ":"}) > 1
            THEN [ok |-> FALSE, e |-> "", n |-> n]
            ELSE split(n, nm, Index(nm, ":"))
        upTo(n) ==
            IF n = p THEN [ok |-> FALSE, e |-> "", n |-> p]
            ELSE IF n > Len(s) THEN [ok |-> FALSE, e |-> "unexpected EOF", n |-> n]
            ELSE named(n, Sub(s, p, n - 1))
    IN  upTo(SkipWhile(s, p, NameByte))

\* the attribute loop of rawToken, from position p inside a start tag
RECURSIVE Attrs(_, _, _)
Attrs(s, p, acc) ==
    LET fail(q, msg) == [e |-> msg, attr |-> acc, n |-> q, empty |-> FALSE]
        unescaped(q, nm, close, val) ==
            IF val.e # "" THEN fail(q, val.e)
            ELSE Attrs(s, close + 1, Append(acc, [name |-> nm.name, value |-> val.s]))
        value(q, nm, close, raw) ==
            IF Contains(raw, "<") THEN fail(q, "unescaped < inside quoted string")
            ELSE unescaped(q, nm, close, Unescape(raw))
        quoted(q, nm, v, close) ==
            IF close = 0 THEN fail(q, "unexpected EOF")
            ELSE value(q, nm, close, Sub(s, v + 1, close - 1))
        opening(q, nm, v, quote) ==
            IF quote \notin {"\"", "'"}
            THEN fail(q, "unquoted or missing attribute value in element")
            ELSE quoted(q, nm, v, IndexFrom(s, quote, v + 1))
        afterEq(q, nm, v) == opening(q, nm, v, At(s, v))
        afterName(q, nm, eq) ==
            IF At(s, eq) # "=" THEN fail(q, "attribute name without = in element")
            ELSE afterEq(q, nm, SkipWhile(s, eq + 1, Space))
        named(q, nm) ==
            IF ~nm.ok
            THEN fail(q, IF nm.e = "" THEN "expected attribute name in element" ELSE nm.e)
            ELSE afterName(q, nm, SkipWhile(s, nm.n, Space))
        at(q, c) ==
            IF q > Len(s) THEN fail(q, "unexpected EOF")
            ELSE IF c = "/"
            THEN IF At(s, q + 1) = ">"
                 THEN [e |-> "", attr |-> acc, n |-> q + 2, empty |-> TRUE]
                 ELSE fail(q, "expected /> in element")
            ELSE IF c = ">" THEN [e |-> "", attr |-> acc, n |-> q + 1, empty |-> FALSE]
            ELSE named(q, nsname(s, q))
        skipped(q) == at(q, At(s, q))
    IN  skipped(SkipWhile(s, p, Space))

\* Decoder.rawToken reading at position p <= Len(s): the token and the position
\* after it, or the syntax error; empty marks a self-closing start tag
rawToken(s, p) ==
    LET fail(msg) == [e |-> msg, n |-> p, empty |-> FALSE]
        tok(t, n) == [e |-> "", t |-> t, n |-> n, empty |-> FALSE]
        \* text up to the next <
        unescaped(tend, txt) ==
            IF txt.e # "" THEN fail(txt.e)
            ELSE tok([k |-> "chardata", data |-> txt.s], tend)
        text(tend, raw) ==
            IF Contains(raw, "]]>") THEN fail("unescaped ]]> not in CDATA section")
            ELSE unescaped(tend, Unescape(raw))
        textTo(tend) == text(tend, Sub(s, p, tend - 1))
        textBefore(lt) == textTo(IF lt = 0 THEN Len(s) + 1 ELSE lt)
        \* </name>
        endTag(ename, egt) ==
            IF egt > Len(s) THEN fail("unexpected EOF")
            ELSE IF At(s, egt) # ">" THEN fail("invalid characters between </ and >")
            ELSE tok([k |-> "end", name |-> ename.name], egt + 1)
        endName(ename) ==
            IF ~ename.ok
            THEN fail(IF ename.e = "" THEN "expected element name after </" ELSE ename.e)
            ELSE endTag(ename, SkipWhile(s, ename.n, Space))
        \* <?target inst?>
        procInst(target, pstart, pend) ==
            IF pend = 0 THEN fail("unexpected EOF")
            ELSE tok([k |-> "procinst",
                      target |-> Sub(s, p + 2, target.n - 1),
                      inst |-> Sub(s, pstart, pend - 1)], pend + 2)
        procBody(target, pstart) == procInst(target, pstart, IndexFrom(s, "?>", pstart))
        procTarget(target) ==
            IF ~target.ok
            THEN fail(IF target.e = "" THEN "expected target name after <?" ELSE target.e)
            ELSE procBody(target, SkipWhile(s, target.n, Space))
        \* <!-- comment -->
        comment(dashes) ==
            IF dashes = 0 \/ dashes + 2 > Len(s) THEN fail("unexpected EOF")
            ELSE IF At(s, dashes + 2) # ">"
            THEN fail("invalid sequence -- not allowed in comments")
            ELSE tok([k |-> "comment", data |-> Sub(s, p + 4, dashes - 1)], dashes + 3)
        \* <![CDATA[ text ]]>
        cdata(cend) ==
            IF cend = 0 THEN fail("unexpected EOF in CDATA section")
            ELSE tok([k |-> "chardata", data |-> Sub(s, p + 9, cend - 1)], cend + 3)
        \* <!directive>
        directive(dend) ==
            IF dend = 0 THEN fail("unexpected EOF")
            ELSE tok([k |-> "directive", data |-> Sub(s, p + 2, dend - 1)], dend + 1)
        \* <name attr...>
        startTag(sname, at) ==
            IF at.e # "" THEN fail(at.e)
            ELSE [e |-> "", n |-> at.n, empty |-> at.empty,
                  t |-> [k |-> "start", name |-> sname.name, attr |-> at.attr]]
        startName(sname) ==
            IF ~sname.ok
            THEN fail(IF sname.e = "" THEN "expected element name after <" ELSE sname.e)
            ELSE startTag(sname, Attrs(s, sname.n, <<>>))
    IN  IF At(s, p) # "<" THEN textBefore(IndexFrom(s, "<", p))
        ELSE IF p + 1 > Len(s) THEN fail("unexpected EOF")
        ELSE IF At(s, p + 1) = "/" THEN endName(nsname(s, p + 2))
        ELSE IF At(s, p + 1) = "?" THEN procTarget(nsname(s, p + 2))
        ELSE IF HasPrefixAt(s, "<!--", p) THEN comment(IndexFrom(s, "--", p + 4))
        ELSE IF HasPrefixAt(s, "<![CDATA[", p) THEN cdata(IndexFrom(s, "]]>", p + 9))
        ELSE IF At(s, p + 1) = "!" THEN directive(IndexFrom(s, ">", p + 2))
        ELSE startName(nsname(s, p + 1))

\* d.ns is a sequence of [prefix, url] bindings, the latest last
nsBound(ns, prefix) == \E i \in 1..Len(ns) : ns[i].prefix = prefix

nsLookup(ns, prefix) ==
    ns[Max({i \in 1..Len(ns) : ns[i].prefix = prefix})].url

\* the bindings a start element's xmlns attributes add (Decoder.Token)
RECURSIVE nsDeclare(_, _)
nsDeclare(ns, attr) ==
    IF attr = <<>> THEN ns
    ELSE LET a == Head(attr)
             ns1 == IF a.name.space = xmlnsPrefix
                    THEN Append(ns, [prefix |-> a.name.local, url |-> a.value])
                    ELSE IF a.name.space = "" /\ a.name.local = xmlnsPrefix
                    THEN Append(ns, [prefix |-> "", url |-> a.value])
                    ELSE ns
         IN  nsDeclare(ns1, Tail(attr))

\* Decoder.translate (DefaultSpace is "")
translate(ns, n, isElementName) ==
    IF n.space = xmlnsPrefix THEN n
    ELSE IF n.space = "" /\ ~isElementName THEN n
    ELSE IF n.space = "" /\ n.local = xmlnsPrefix THEN n
    ELSE LET sp == IF n.space = xmlPrefix THEN xmlURL ELSE n.space
         IN  IF nsBound(ns, sp) THEN [space |-> nsLookup(ns, sp), local |-> n.local]
             ELSE [space |-> sp, local |-> n.local]

translateAttrs(ns, attr) ==
    [i \in 1..Len(attr) |->
        [name |-> translate(ns, attr[i].name, FALSE), value |-> attr[i].value]]

\* One call of Decoder.Token on the decoder state d = [done, e, p, stk, ns, toks]:
\* p is the read position, stk the open elements, each with the bindings in
\* force outside it, toks the tokens returned so far; done is set at io.EOF or
\* at an error e.
Token(s, d) ==
    LET fail(msg) == [d EXCEPT !.done = TRUE, !.e = msg]
        next(n, stk, ns, new) ==
            [done |-> FALSE, e |-> "", p |-> n, stk |-> stk, ns |-> ns,
             toks |-> d.toks \o new]
        started(r, ns1, st) ==
            IF r.empty
            THEN next(r.n, d.stk, d.ns, <<st, [k |-> "end", name |-> st.name]>>)
            ELSE next(r.n, Append(d.stk, [name |-> r.t.name, ns |-> d.ns]), ns1, <<st>>)
        start(r, ns1) ==
            started(r, ns1, [k |-> "start", name |-> translate(ns1, r.t.name, TRUE),
                             attr |-> translateAttrs(ns1, r.t.attr)])
        end(r, top) ==
            IF top.name.local # r.t.name.local \/ top.name.space # r.t.name.space
            THEN fail("element closed by another end tag")
            ELSE next(r.n, SubSeq(d.stk, 1, Len(d.stk) - 1), top.ns,
                      <<[k |-> "end", name |-> translate(d.ns, r.t.name, TRUE)]>>)
        token(r) ==
            IF r.e # "" THEN fail(r.e)
            ELSE IF r.t.k = "start" THEN start(r, nsDeclare(d.ns, r.t.attr))
            ELSE IF r.t.k = "end"
            THEN IF d.stk = <<>> THEN fail("unexpected end element")
                 ELSE end(r, d.stk[Len(d.stk)])
            ELSE next(r.n, d.stk, d.ns, <<r.t>>)
    IN  IF d.p > Len(s)
        THEN IF d.stk # <<>> THEN fail("unexpected EOF") ELSE [d EXCEPT !.done = TRUE]
        ELSE token(rawToken(s, d.p))

\* Token called up to 2^k times, stopping at io.EOF or an error
RECURSIVE Tokens(_, _, _)
Tokens(s, d, k) ==
    IF d.done THEN d
    ELSE IF k = 0 THEN Token(s, d)
    ELSE Tokens(s, Tokens(s, d, k - 1), k - 1)

\* the least k with 2^k >= n
RECURSIVE Log2(_)
Log2(n) == IF n <= 1 THEN 0 ELSE 1 + Log2((n + 1) \div 2)

\* The loop `for { Token() }` of ValidateXML and prettyPrintXML.  Every call
\* but the last consumes input, so Len(s) + 1 calls reach io.EOF.
Decode(s) ==
    LET d == Tokens(s, [done |-> FALSE, e |-> "", p |-> 1, stk |-> <<>>, ns |-> <<>>,
                        toks |-> <<>>], Log2(Len(s) + 1))
    IN  [e |-> d.e, toks |-> d.toks]

(***************************************************************************)
(* ValidateXML: "" for nil, else the decoder's error                       *)
(***************************************************************************)
ValidateXML(content) == Decode(content).e

(***************************************************************************)
(* cleanDiagramContent.  Each regular expression is written out as the     *)
(* search Go's regexp package performs (leftmost match, greedy and lazy    *)
(* operators in their order of preference); . does not match a newline.    *)
(***************************************************************************)
\* strings.ReplaceAll(s, old, new), old non-empty
RECURSIVE ReplaceAll(_, _, _)
ReplaceAll(s, old, new) ==
    LET at(i) ==
            IF i = 0 THEN s
            ELSE Sub(s, 1, i - 1) \o new \o ReplaceAll(From(s, i + Len(old)), old, new)
    IN  at(Index(s, old))

\* whether . matches every character of s[i..j]
DotAll(s, i, j) == ~Contains(Sub(s, i, j), "\n")

\* scriptRegex `<script[^>]*>.*?</script>` matched at position i: the position of
\* the last character of the match, 0 for no match
scriptRegexEnd(s, i) ==
    LET body(gt, close) ==
            IF close = 0 \/ ~DotAll(s, gt + 1, close - 1) THEN 0 ELSE close + 8
        tag(gt) == IF gt = 0 THEN 0 ELSE body(gt, IndexFrom(s, "</script>", gt + 1))
    IN  IF ~HasPrefixAt(s, "<script", i) THEN 0 ELSE tag(IndexFrom(s, ">", i + 7))

\* scriptRegex.ReplaceAllString(content, "")
RECURSIVE removeScripts(_)
removeScripts(s) ==
    LET cut(i, end) == Sub(s, 1, i - 1) \o removeScripts(From(s, end + 1))
        at(i) == cut(i, scriptRegexEnd(s, i))
        first(starts) == IF starts = {} THEN s ELSE at(Min(starts))
    IN  first({i \in 1..Len(s) : scriptRegexEnd(s, i) # 0})

\* aTagRegex `(<g[^>]*>)\s*<a\s+[^>]*href="[^"]*"[^>]*>(.*?)</a>` matched at
\* position i: [end, gTag, contentInside], end = 0 for no match
aTagRegexMatch(s, i) ==
    LET none == [end |-> 0, gTag |-> "", contentInside |-> ""]
        \* with href=" at h: the closing quote, the end of the <a> tag, the </a>
        noLink == [ok |-> FALSE, agt |-> 0, close |-> 0]
        body(agt, close) ==
            [ok |-> close # 0 /\ DotAll(s, agt + 1, close - 1), agt |-> agt,
             close |-> close]
        tagEnd(agt) == IF agt = 0 THEN noLink ELSE body(agt, IndexFrom(s, "</a>", agt + 1))
        value(quote) == IF quote = 0 THEN noLink ELSE tagEnd(IndexFrom(s, ">", quote + 1))
        href(h) == value(IndexFrom(s, "\"", h + 6))
        \* [^>]* before href is greedy: the last href that lets the rest match
        result(ggt, m) ==
            [end |-> m.close + 3,
             gTag |-> Sub(s, i, ggt),
             contentInside |-> Sub(s, m.agt + 1, m.close - 1)]
        pick(ggt, hs) == IF hs = {} THEN none ELSE result(ggt, href(Max(hs)))
        link(ggt, a) ==
            IF ~HasPrefixAt(s, "<a", a) \/ At(s, a + 2) \notin Space THEN none
            ELSE pick(ggt, {h \in a + 3 .. Len(s) :
                              /\ HasPrefixAt(s, "href=\"", h)
                              /\ ~Contains(Sub(s, a + 3, h - 1), ">")
                              /\ href(h).ok})
        group(ggt) == IF ggt = 0 THEN none ELSE link(ggt, SkipWhile(s, ggt + 1, Space))
    IN  IF ~HasPrefixAt(s, "<g", i) THEN none ELSE group(IndexFrom(s, ">", i + 2))

\* strings.Replace(s, old, new, 1)
ReplaceFirst(s, old, new) ==
    LET at(i) == IF i = 0 THEN s ELSE Sub(s, 1, i - 1) \o new \o From(s, i + Len(old))
    IN  at(Index(s, old))

\* aTagRegex.ReplaceAllStringFunc(content, ...)
RECURSIVE rewriteLinks(_)
rewriteLinks(s) ==
    LET rewrite(i, m) ==
            Sub(s, 1, i - 1)
            \o ReplaceFirst(m.gTag, ">", " onclick=\"navigateDown()\" style=\"cursor:pointer;\">")
            \o m.contentInside
            \o rewriteLinks(From(s, m.end + 1))
        at(i) == rewrite(i, aTagRegexMatch(s, i))
        first(starts) == IF starts = {} THEN s ELSE at(Min(starts))
    IN  first({i \in 1..Len(s) : aTagRegexMatch(s, i).end # 0})

\* `<a\s+[^>]*>` matched at position i: the position of its last character, or 0
aOpenEnd(s, i) ==
    IF HasPrefixAt(s, "<a", i) /\ At(s, i + 2) \in Space
    THEN IndexFrom(s, ">", i + 3)
    ELSE 0

\* regexp.MustCompile(`<a\s+[^>]*>`).ReplaceAllString(content, "")
RECURSIVE removeAOpen(_)
removeAOpen(s) ==
    LET cut(i, end) == Sub(s, 1, i - 1) \o removeAOpen(From(s, end + 1))
        at(i) == cut(i, aOpenEnd(s, i))
        first(starts) == IF starts = {} THEN s ELSE at(Min(starts))
    IN  first({i \in 1..Len(s) : aOpenEnd(s, i) # 0})

cleanDiagramContent(content, currentLevel) ==
    ReplaceAll(removeAOpen(rewriteLinks(removeScripts(content))), "</a>", "")

(***************************************************************************)
(* package encoding/xml: the Encoder, after Indent("      ", "  ").  The   *)
(* printer is a record: buf (the bytes written), depth, indentedIn,        *)
(* putNewline, tags (the open elements), prefixes (the stack of name space *)
(* prefixes created for attributes, "" marking an element's start), seq    *)
(* and e (the error EncodeToken returned, "" for nil).                     *)
(***************************************************************************)
indentPrefix == "      "
indentStep == "  "

\* printer.EscapeString (escapeNewline) and escapeText(p, s, false)
RECURSIVE escapeText(_, _)
escapeText(s, escapeNewline) ==
    LET c == Head(s)
        esc == IF c = "\"" THEN "&#34;"
               ELSE IF c = "'" THEN "&#39;"
               ELSE IF c = "&" THEN "&amp;"
               ELSE IF c = "<" THEN "&lt;"
               ELSE IF c = ">" THEN "&gt;"
               ELSE IF c = "\t" THEN "&#x9;"
               ELSE IF c = "\n" /\ escapeNewline THEN "&#xA;"
               ELSE IF c = "\r" THEN "&#xD;"
               ELSE c
    IN  IF s = "" THEN "" ELSE esc \o escapeText(Tail(s), escapeNewline)

RECURSIVE Repeat(_, _)
Repeat(s, n) == IF n <= 0 THEN "" ELSE s \o Repeat(s, n - 1)

\* printer.writeIndent
writeIndent(p, depthDelta) ==
    LET at(depth1) ==
            [p EXCEPT !.buf = @ \o (IF p.putNewline THEN "\n" ELSE "") \o indentPrefix
                                \o Repeat(indentStep, depth1),
                      !.putNewline = TRUE,
                      !.depth = IF depthDelta > 0 THEN depth1 + 1 ELSE depth1,
                      !.indentedIn = (depthDelta > 0)]
    IN  IF depthDelta < 0 /\ p.indentedIn
        THEN [p EXCEPT !.depth = p.depth - 1, !.indentedIn = FALSE]
        ELSE at(IF depthDelta < 0 THEN p.depth - 1 ELSE p.depth)

\* the prefix printer.createAttrPrefix picks for a name space before it looks for a
\* free one: the last path element of the url, _ when that is no name
pickPrefix(url) ==
    LET guarded(pre) ==
            IF Len(pre) >= 3 /\ ToLower(Sub(pre, 1, 3)) = "xml" THEN "_" \o pre ELSE pre
        element(last) ==
            guarded(IF /\ last # ""
                       /\ At(last, 1) \in NameStart
                       /\ \A j \in 1..Len(last) : At(last, j) \in NameByte
                       /\ ~Contains(last, ":")
                    THEN last ELSE "_")
        afterSlash(trimmed, slash) ==
            element(IF slash = 0 THEN trimmed ELSE From(trimmed, slash + 1))
        path(trimmed) == afterSlash(trimmed, LastIndex(trimmed, "/"))
        trim(ends) == path(IF ends = {} THEN "" ELSE Sub(url, 1, Max(ends)))
    IN  trim({j \in 1..Len(url) : At(url, j) # "/"})

prefixTaken(p, prefix) == \E i \in 1..Len(p.prefixes) : p.prefixes[i].prefix = prefix

\* printer.createAttrPrefix: [p, prefix], p with the declaration written when the
\* name space had no prefix yet
createAttrPrefix(p, url) ==
    LET declare(prefix, seq) ==
            [p |-> [p EXCEPT
                      !.seq = seq,
                      !.prefixes = Append(@, [prefix |-> prefix, url |-> url]),
                      !.buf = @ \o "xmlns:" \o prefix \o "=\"" \o escapeText(url, TRUE) \o "\" "],
             prefix |-> prefix]
        numbered(pre, free) == declare(pre \o "_" \o ToString(free), free)
        fresh(pre) ==
            IF prefixTaken(p, pre)
            THEN numbered(pre, Min({n \in (p.seq + 1) .. (p.seq + Len(p.prefixes) + 1) :
                                      ~prefixTaken(p, pre \o "_" \o ToString(n))}))
            ELSE declare(pre, p.seq)
        lookup(known) ==
            IF known # {} THEN [p |-> p, prefix |-> p.prefixes[Min(known)].prefix]
            ELSE IF url = xmlURL THEN [p |-> p, prefix |-> xmlPrefix]
            ELSE fresh(pickPrefix(url))
    IN  lookup({i \in 1..Len(p.prefixes) :
                  p.prefixes[i].prefix # "" /\ p.prefixes[i].url = url})

\* the attribute loop of printer.writeStart
RECURSIVE writeAttrs(_, _)
writeAttrs(p, attr) ==
    LET value(a, p2) ==
            writeAttrs([p2 EXCEPT !.buf = @ \o a.name.local \o "=\""
                                           \o escapeText(a.value, TRUE) \o "\""],
                       Tail(attr))
        prefixed(a, c) == value(a, [c.p EXCEPT !.buf = @ \o c.prefix \o ":"])
        spaced(a, p1) ==
            IF a.name.space # "" THEN prefixed(a, createAttrPrefix(p1, a.name.space))
            ELSE value(a, p1)
        one(a) ==
            IF a.name.local = "" THEN writeAttrs(p, Tail(attr))
            ELSE spaced(a, [p EXCEPT !.buf = @ \o " "])
    IN  IF attr = <<>> THEN p ELSE one(Head(attr))

\* printer.writeStart
writeStart(p, start) ==
    LET named(p2) ==
            [p2 EXCEPT !.buf = @ \o "<" \o start.name.local
                          \o (IF start.name.space # ""
                              THEN " xmlns=\"" \o escapeText(start.name.space, TRUE) \o "\""
                              ELSE "")]
        closed(p4) == [p4 EXCEPT !.buf = @ \o ">"]
    IN  IF start.name.local = "" THEN [p EXCEPT !.e = "xml: start tag with no name"]
        ELSE closed(writeAttrs(
                 named(writeIndent([p EXCEPT !.tags = Append(@, start.name),
                                             !.prefixes = Append(@, [prefix |-> "", url |-> ""])],
                                   1)),
                 start.attr))

\* printer.popPrefix
popPrefix(prefixes) ==
    LET marks == {i \in 1..Len(prefixes) : prefixes[i].prefix = ""}
    IN  IF marks = {} THEN <<>> ELSE SubSeq(prefixes, 1, Max(marks) - 1)

\* printer.writeEnd
writeEnd(p, name) ==
    LET close(p1) == [p1 EXCEPT !.buf = @ \o "</" \o name.local \o ">",
                                !.prefixes = popPrefix(@)]
    IN  IF name.local = "" THEN [p EXCEPT !.e = "xml: end tag with no name"]
        ELSE IF p.tags = <<>> \/ p.tags[Len(p.tags)] # name
        THEN [p EXCEPT !.e = "xml: end tag does not match start tag"]
        ELSE close(writeIndent([p EXCEPT !.tags = SubSeq(@, 1, Len(@) - 1)], -1))

\* Encoder.EncodeToken
EncodeToken(p, t) ==
    IF t.k = "start" THEN writeStart(p, t)
    ELSE IF t.k = "end" THEN writeEnd(p, t.name)
    ELSE IF t.k = "chardata" THEN [p EXCEPT !.buf = @ \o escapeText(t.data, FALSE)]
    ELSE IF t.k = "comment" THEN [p EXCEPT !.buf = @ \o "<!--" \o t.data \o "-->"]
    ELSE IF t.k = "procinst"
    THEN IF t.target = "xml" /\ p.buf # ""
         THEN [p EXCEPT !.e = "xml: EncodeToken of ProcInst xml target only valid for xml declaration"]
         ELSE [p EXCEPT !.buf = @ \o "<?" \o t.target
                                  \o (IF t.inst # "" THEN " " \o t.inst ELSE "") \o "?>"]
    ELSE [p EXCEPT !.buf = @ \o "<!" \o t.data \o ">"]

NewEncoder ==
    [buf |-> "", depth |-> 0, indentedIn |-> FALSE, putNewline |-> FALSE,
     tags |-> <<>>, prefixes |-> <<>>, seq |-> 0, e |-> ""]

(***************************************************************************)
(* prettyPrintXML                                                          *)
(***************************************************************************)
\* the token loop: every token but the <root> start and end tokens is encoded
RECURSIVE encodeAll(_, _)
encodeAll(p, toks) ==
    LET encoded(p1) == IF p1.e # "" THEN p1 ELSE encodeAll(p1, Tail(toks))
        one(t) ==
            IF t.k \in {"start", "end"} /\ t.name.local = "root"
            THEN encodeAll(p, Tail(toks))
            ELSE encoded(EncodeToken(p, t))
    IN  IF toks = <<>> THEN p ELSE one(Head(toks))

\* a variant of prettyPrintXML that returns what the encoder had written when a
\* token could not be encoded
prettyPrintXML_partial(content) ==
    LET flushed(p) == TrimSpace(p.buf)
        decoded(d) == IF d.e # "" THEN content ELSE flushed(encodeAll(NewEncoder, d.toks))
    IN  decoded(Decode("<root xmlns:xlink=\"http://www.w3.org/1999/xlink\">"
                       \o content \o "</root>"))

prettyPrintXML(content) ==
    LET flushed(p) == IF p.e # "" THEN content ELSE TrimSpace(p.buf)
        decoded(d) == IF d.e # "" THEN content ELSE flushed(encodeAll(NewEncoder, d.toks))
    IN  decoded(Decode("<root xmlns:xlink=\"http://www.w3.org/1999/xlink\">"
                       \o content \o "</root>"))

(***************************************************************************)
(* float64 values.  A value is [neg, num, den], the number (-1)^neg *      *)
(* num/den; den = 0 is an infinity (num > 0) or NaN (num = 0), and neg     *)
(* with num = 0 is the negative zero.                                      *)
(***************************************************************************)
Float(n) == [neg |-> FALSE, num |-> n, den |-> 1]

\* a / b in float64 arithmetic: a division by zero is an infinity, not a panic
FloatDiv(a, b) ==
    [neg |-> (a.neg # b.neg), num |-> a.num * b.den, den |-> a.den * b.num]

\* f > 0
FloatPositive(f) == ~f.neg /\ f.num > 0

RECURSIVE Atoi(_)
Atoi(s) ==
    IF s = "" THEN 0
    ELSE 10 * Atoi(Sub(s, 1, Len(s) - 1))
         + (CHOOSE d \in 0..9 : ToString(d) = At(s, Len(s)))

\* strconv.ParseFloat(s, 64) on decimal integers: an optional sign and digits.
\* (The other spellings ParseFloat accepts - fractions, exponents, hexadecimal,
\* inf, nan - need characters that the model's attribute values do not contain.)
ParseFloat(s) ==
    LET number(digits) ==
            IF digits = "" \/ \E j \in 1..Len(digits) : At(digits, j) \notin Digits
            THEN [err |-> TRUE, v |-> Float(0)]
            ELSE [err |-> FALSE,
                  v |-> [neg |-> (At(s, 1) = "-"), num |-> Atoi(digits), den |-> 1]]
    IN  number(IF At(s, 1) \in {"+", "-"} THEN From(s, 2) ELSE s)

(***************************************************************************)
(* parseSVG                                                                *)
(***************************************************************************)
DefaultWidth == 400
DefaultHeight == 300
DefaultViewBox == "0 0 400 300"

\* svgRegex.FindString(content) for `<svg[^>]*>`: "" when nothing matches
svgRegexFind(content) ==
    LET tag(i, gt) == IF gt = 0 THEN "" ELSE Sub(content, i, gt)
        from(i) == IF i = 0 THEN "" ELSE tag(i, IndexFrom(content, ">", i + 4))
    IN  from(Index(content, "<svg"))

\* regexp `name="([^"]*)"`.FindStringSubmatch(tag): whether it matched and group 1
attrRegexFind(tag, name) ==
    LET none == [found |-> FALSE, value |-> ""]
        value(v, q) == IF q = 0 THEN none ELSE [found |-> TRUE, value |-> Sub(tag, v, q - 1)]
        from(h) == IF h = 0 THEN none ELSE value(h + Len(name) + 2, IndexFrom(tag, "\"", h + Len(name) + 2))
    IN  from(Index(tag, name \o "=\""))

\* the width and height blocks of parseSVG
sizeAttr(tag, name, default) ==
    LET parsed(r) == IF r.err THEN Float(default) ELSE r.v
        matched(m) ==
            IF m.found THEN parsed(ParseFloat(TrimSuffix(m.value, "px")))
            ELSE Float(default)
    IN  matched(attrRegexFind(tag, name))

viewBoxAttr(tag) ==
    LET matched(m) == IF m.found THEN m.value ELSE DefaultViewBox
    IN  matched(attrRegexFind(tag, "viewBox"))

NoInfo == [content |-> "", viewBox |-> "", width |-> Float(0), height |-> Float(0),
           aspectRatio |-> Float(0)]

\* the text span parseSVG extracts: [e, startIdx, endIdx], the span being
\* content[startIdx:endIdx] in Go, here the characters startIdx+1 .. endIdx-1 of
\* the 1-based positions (startIdx is the position of the tag's > and endIdx that
\* of the last </svg>)
svgSpan(content) ==
    LET span(svgTagEndPos, endIdx) ==
            IF endIdx = 0 \/ endIdx <= svgTagEndPos + 1
            THEN [e |-> "no </svg> tag", startIdx |-> svgTagEndPos, endIdx |-> endIdx]
            ELSE [e |-> "", startIdx |-> svgTagEndPos, endIdx |-> endIdx]
        tag(svgTagEndPos) ==
            IF svgTagEndPos = 0
            THEN [e |-> "malformed <svg> tag", startIdx |-> 0, endIdx |-> 0]
            ELSE span(svgTagEndPos, LastIndex(content, "</svg>"))
        from(svgStartPos) ==
            IF svgStartPos = 0 THEN [e |-> "no <svg> tag", startIdx |-> 0, endIdx |-> 0]
            ELSE tag(IndexFrom(content, ">", svgStartPos))
    IN  from(Index(content, "<svg"))

\* parseSVG: [e, info], e the error ("" for nil) and info the record returned
\* with it
parseSVG(content, level) ==
    LET extracted(meta, span) ==
            IF span.e # "" THEN [e |-> span.e, info |-> meta]
            ELSE [e |-> "",
                  info |-> [meta EXCEPT !.content =
                              prettyPrintXML(cleanDiagramContent(
                                  Sub(content, span.startIdx + 1, span.endIdx - 1), level))]]
        sized(match, width, height) ==
            extracted([content |-> "", viewBox |-> viewBoxAttr(match),
                       width |-> width, height |-> height,
                       aspectRatio |-> FloatDiv(width, height)],
                      svgSpan(content))
        matched(match) ==
            IF match = "" THEN [e |-> "no SVG element", info |-> NoInfo]
            ELSE sized(match, sizeAttr(match, "width", DefaultWidth),
                       sizeAttr(match, "height", DefaultHeight))
    IN  matched(svgRegexFind(content))

(***************************************************************************)
(* buildStackedSVG and createDiagramLayer.  The literal text is the        *)
(* program's, with two abridgements that no claim reads: of the <style>    *)
(* block only the first rule is kept, and of the embedded navigation.js    *)
(* only its opening declarations.                                          *)
(***************************************************************************)
levels == <<"context", "container", "component", "code">>

\* strconv.Itoa, fmt's %d
Itoa(n) == ToString(n)

\* titleCase
titleCase(s) == IF s = "" THEN s ELSE UpperChar(Head(s)) \o Tail(s)

RECURSIVE Pow10(_)
Pow10(n) == IF n = 0 THEN 1 ELSE 10 * Pow10(n - 1)

RECURSIVE ZeroPad(_, _)
ZeroPad(s, n) == IF Len(s) >= n THEN s ELSE ZeroPad("0" \o s, n)

\* fmt's %.<prec>f of a float64 (rounding to nearest, an exact tie to even)
FormatFloat(f, prec) ==
    LET n == f.num * Pow10(prec)
        q == n \div f.den
        r == n % f.den
        rounded == IF 2 * r > f.den \/ (2 * r = f.den /\ q % 2 = 1) THEN q + 1 ELSE q
        ip == rounded \div Pow10(prec)
        fp == rounded % Pow10(prec)
    IN  IF f.den = 0
        THEN IF f.num = 0 THEN "NaN" ELSE IF f.neg THEN "-Inf" ELSE "+Inf"
        ELSE (IF f.neg THEN "-" ELSE "") \o Itoa(ip)
             \o (IF prec > 0 THEN "." \o ZeroPad(Itoa(fp), prec) ELSE "")

navigationJS ==
    "// Embedded navigation JavaScript for stacked C4 diagrams\n"
    \o "let currentLevel = 'context';\n"
    \o "let fitToWidth = false; // false = native size (free zoom), true = auto-scale (constrained)\n"
    \o "let notesVisible = true; // true = show notes, false = hide notes\n"

svgHeader ==
    "<?xml version=\"1.0\" encoding=\"UTF-8\"?>\n"
    \o "<svg xmlns=\"http://www.w3.org/2000/svg\"\n"
    \o "     xmlns:xlink=\"http://www.w3.org/1999/xlink\"\n"
    \o "     width=\"1920\"\n"
    \o "     height=\"1080\"\n"
    \o "     style=\"background: #f8f9fa; display: block;\">\n"
    \o "\n"
    \o "  <title>Stacked C4 Architecture Diagrams</title>\n"
    \o "\n"
    \o "  <!-- CSS Styles for Progressive Enhancement -->\n"
    \o "  <style>\n"
    \o "    /* Path highlighting - works without JavaScript */\n"
    \o "    .link path,\n"
    \o "    .link polygon {\n"
    \o "      pointer-events: stroke; /* Only capture events on the stroke itself */\n"
    \o "    }\n"
    \o "  </style>"

navigationHeader(t) ==
    "\n"
    \o "\n"
    \o "  <!-- Navigation Header -->\n"
    \o "  <rect x=\"0\" y=\"0\" width=\"100%\" height=\"80\" fill=\"#2c3e50\"/>\n"
    \o "  <text x=\"26\" y=\"50\" font-family=\"Arial, sans-serif\" font-size=\"30\" font-weight=\"bold\" fill=\"white\">\n"
    \o "    "
    \o t
    \o "\n"
    \o "  </text>\n"
    \o "\n"
    \o "  <!-- Navigation Buttons -->\n"

navButton(x, level) ==
    "  <rect x=\""
    \o Itoa(x)
    \o "\" y=\"91\" width=\"104\" height=\"33\" rx=\"4\"\n"
    \o "        fill=\"#3498db\" stroke=\"#2980b9\" stroke-width=\"1\"\n"
    \o "        style=\"cursor:pointer\" onclick=\"showLevel('"
    \o level
    \o "')\"\n"
    \o "        id=\"nav-"
    \o level
    \o "\"/>\n"
    \o "  <text x=\""
    \o Itoa(x + 13)
    \o "\" y=\"113\" font-family=\"Arial, sans-serif\" font-size=\"14\"\n"
    \o "        fill=\"white\" style=\"cursor:pointer; user-select: none\"\n"
    \o "        onclick=\"showLevel('"
    \o level
    \o "')\">\n"
    \o "    "
    \o titleCase(level)
    \o "\n"
    \o "  </text>\n"

toggleButtons ==
    "\n"
    \o "  <!-- Notes Toggle (right-aligned via JavaScript) -->\n"
    \o "  <rect x=\"364\" y=\"91\" width=\"130\" height=\"33\" rx=\"4\"\n"
    \o "        fill=\"#3498db\" stroke=\"#2980b9\" stroke-width=\"1\"\n"
    \o "        style=\"cursor:pointer\" onclick=\"toggleNotes()\"\n"
    \o "        id=\"notes-toggle\"/>\n"
    \o "  <text x=\"377\" y=\"113\" font-family=\"Arial, sans-serif\" font-size=\"14\"\n"
    \o "        fill=\"white\" style=\"cursor:pointer; user-select: none\"\n"
    \o "        onclick=\"toggleNotes()\" id=\"notes-text\">\n"
    \o "    Hide Notes\n"
    \o "  </text>\n"
    \o "\n"
    \o "  <!-- Fit to Width Toggle (right-aligned via JavaScript) -->\n"
    \o "  <rect x=\"520\" y=\"91\" width=\"130\" height=\"33\" rx=\"4\"\n"
    \o "        fill=\"#3498db\" stroke=\"#2980b9\" stroke-width=\"1\"\n"
    \o "        style=\"cursor:pointer\" onclick=\"toggleFitMode()\"\n"
    \o "        id=\"fit-toggle\"/>\n"
    \o "  <text x=\"533\" y=\"113\" font-family=\"Arial, sans-serif\" font-size=\"14\"\n"
    \o "        fill=\"white\" style=\"cursor:pointer; user-select: none\"\n"
    \o "        onclick=\"toggleFitMode()\" id=\"fit-text\">\n"
    \o "    Native Size\n"
    \o "  </text>\n"

layersComment ==
    "\n"
    \o "\n"
    \o "  <!-- Diagram Layers (positioned below header at y=140) -->\n"

scriptOpen ==
    "\n"
    \o "  <!-- Navigation Script -->\n"
    \o "  <script type=\"text/ecmascript\"><![CDATA[\n"
    \o "    "

scriptClose ==
    "\n"
    \o "  ]]></script>\n"
    \o "\n"
    \o "</svg>"

missingLayer(level) ==
    "\n"
    \o "  <!-- "
    \o level
    \o " layer (not found) -->\n"
    \o "  <g id=\"layer-"
    \o level
    \o "\" style=\"display:none\">\n"
    \o "    <rect x=\"50\" y=\"120\" width=\"700\" height=\"450\" fill=\"#ecf0f1\" stroke=\"#bdc3c7\"/>\n"
    \o "    <text x=\"400\" y=\"350\" text-anchor=\"middle\" font-family=\"Arial\" font-size=\"16\" fill=\"#7f8c8d\">\n"
    \o "      "
    \o titleCase(level)
    \o " diagram not found\n"
    \o "    </text>\n"
    \o "  </g>"

diagramLayer(level, diagram) ==
    "\n"
    \o "  <!-- "
    \o level
    \o " layer -->\n"
    \o "  <g id=\"layer-"
    \o level
    \o "\" style=\"display:none\">\n"
    \o "    <rect x=\"5\" y=\"145\" width=\"99999\" height=\"99999\" fill=\"white\" stroke=\"#ddd\" stroke-width=\"1\" rx=\"5\" id=\"container-"
    \o level
    \o "\"/>\n"
    \o "    <g id=\"diagram-"
    \o level
    \o "\">\n"
    \o "      <svg viewBox=\""
    \o diagram.viewBox
    \o "\" x=\"10\" y=\"150\" width=\"99999\" height=\"99999\" preserveAspectRatio=\"xMidYMin meet\">\n"
    \o "        "
    \o diagram.content
    \o "\n"
    \o "      </svg>\n"
    \o "    </g>\n"
    \o "  </g>"

\* createDiagramLayer, on the collection d
createDiagramLayer(d, level) ==
    IF level \notin DOMAIN d THEN missingLayer(level) ELSE diagramLayer(level, d[level])

\* how many of the levels before the k-th have a record
existingBefore(d, k) == Cardinality({j \in 1..(k - 1) : levels[j] \in DOMAIN d})

\* a variant of the button loop that gives the k-th level the k-th slot,
\* whether or not the levels before it have a record
RECURSIVE navButtons_fixedSlots(_, _)
navButtons_fixedSlots(d, k) ==
    IF k > Len(levels) THEN ""
    ELSE (IF levels[k] \in DOMAIN d THEN navButton(26 + (k - 1) * 117, levels[k]) ELSE "")
         \o navButtons_fixedSlots(d, k + 1)

\* the button loop of buildStackedSVG, from the k-th level on
RECURSIVE navButtons(_, _)
navButtons(d, k) ==
    IF k > Len(levels) THEN ""
    ELSE (IF levels[k] \in DOMAIN d
          THEN navButton(26 + existingBefore(d, k) * 117, levels[k])
          ELSE "")
         \o navButtons(d, k + 1)

RECURSIVE diagramLayers(_, _)
diagramLayers(d, k) ==
    IF k > Len(levels) THEN ""
    ELSE createDiagramLayer(d, levels[k]) \o diagramLayers(d, k + 1)

RECURSIVE diagramData(_, _)
diagramData(d, k) ==
    IF k > Len(levels) THEN ""
    ELSE (IF levels[k] \in DOMAIN d
          THEN (IF existingBefore(d, k) > 0 THEN ",\n" ELSE "")
               \o "  '" \o levels[k] \o "': { width: " \o FormatFloat(d[levels[k]].width, 0)
               \o ", height: " \o FormatFloat(d[levels[k]].height, 0)
               \o ", ratio: " \o FormatFloat(d[levels[k]].aspectRatio, 2) \o " }"
          ELSE "")
         \o diagramData(d, k + 1)

\* a variant of the availableLevels loop that lists every level, with or
\* without a record
RECURSIVE availableLevels_allLevels(_, _)
availableLevels_allLevels(d, k) ==
    IF k > Len(levels) THEN ""
    ELSE (IF k > 1 THEN ", " ELSE "") \o "'" \o levels[k] \o "'"
         \o availableLevels_allLevels(d, k + 1)

RECURSIVE availableLevels(_, _)
availableLevels(d, k) ==
    IF k > Len(levels) THEN ""
    ELSE (IF levels[k] \in DOMAIN d
          THEN (IF existingBefore(d, k) > 0 THEN ", " ELSE "") \o "'" \o levels[k] \o "'"
          ELSE "")
         \o availableLevels(d, k + 1)

\* A variant of the button loop that ranges over the map s.diagrams itself, in
\* the order the runtime happens to visit its keys: the k-th key visited gets
\* the k-th slot.
RECURSIVE navButtons_mapOrder(_, _)
navButtons_mapOrder(order, k) ==
    IF k > Len(order) THEN ""
    ELSE navButton(26 + (k - 1) * 117, order[k]) \o navButtons_mapOrder(order, k + 1)

\* buildStackedSVG with that button loop; arg is the order in which a range
\* over the map would visit its keys during the call
buildStackedSVG_mapOrder(d, t) ==
    svgHeader
    \o navigationHeader(t)
    \o navButtons_mapOrder(arg, 1)
    \o toggleButtons
    \o layersComment
    \o diagramLayers(d, 1)
    \o scriptOpen
    \o "const diagramData = {\n" \o diagramData(d, 1) \o "\n};\n\n"
    \o "const availableLevels = [" \o availableLevels(d, 1) \o "];\n\n"
    \o navigationJS
    \o scriptClose

buildStackedSVG(d, t) ==
    svgHeader
    \o navigationHeader(t)
    \o navButtons(d, 1)
    \o toggleButtons
    \o layersComment
    \o diagramLayers(d, 1)
    \o scriptOpen
    \o "const diagramData = {\n" \o diagramData(d, 1) \o "\n};\n\n"
    \o "const availableLevels = [" \o availableLevels(d, 1) \o "];\n\n"
    \o navigationJS
    \o scriptClose

(***************************************************************************)
(* loadDiagrams and CreateStackedSVG.  A file of the input directory is    *)
(* [name, content, readable]; dir lists the *.svg files in the order Glob  *)
(* returns them.  The directory holds no *.puml file, so CreateStackedSVG  *)
(* goes straight to loadDiagrams.                                          *)
(***************************************************************************)
NoDiagrams == [l \in {} |-> NoInfo]

\* a variant of the store that keeps the record a level already has
storeDiagram_keepFirst(d, level, info) ==
    IF level \in DOMAIN d THEN d
    ELSE [l \in DOMAIN d \cup {level} |-> IF l = level THEN info ELSE d[l]]

\* s.diagrams[level] = info
storeDiagram(d, level, info) ==
    [l \in DOMAIN d \cup {level} |-> IF l = level THEN info ELSE d[l]]

\* a variant of the loop body that classifies the name before reading and
\* validating the file, so that an unmatched file is skipped unread
scanFile_classifyFirst(f) ==
    LET res(e, store, level, info, calls) ==
            [e |-> e, store |-> store, level |-> level, info |-> info, calls |-> calls]
        parsed(level, r) ==
            res(r.e, r.e = "", level, r.info,
                <<"extractLevel", "ReadFile", "ValidateXML", "parseSVG">>)
        validated(level, valid) ==
            IF valid # ""
            THEN res(valid, FALSE, level, NoInfo, <<"extractLevel", "ReadFile", "ValidateXML">>)
            ELSE parsed(level, parseSVG(f.content, level))
        classified(level) ==
            IF level = "unknown" THEN res("", FALSE, level, NoInfo, <<"extractLevel">>)
            ELSE IF ~f.readable
            THEN res("read error", FALSE, level, NoInfo, <<"extractLevel", "ReadFile">>)
            ELSE validated(level, ValidateXML(f.content))
    IN  classified(extractLevel(f.name))

\* The body of the loop of loadDiagrams on one file: the error returned ("" for
\* none), the level and whether a record info is stored under it, and the calls
\* made on the file, in order.
scanFile(f) ==
    LET res(e, store, level, info, calls) ==
            [e |-> e, store |-> store, level |-> level, info |-> info, calls |-> calls]
        parsed(level, r) ==
            res(r.e, r.e = "", level, r.info,
                <<"ReadFile", "ValidateXML", "extractLevel", "parseSVG">>)
        classified(level) ==
            IF level = "unknown"
            THEN res("", FALSE, level, NoInfo, <<"ReadFile", "ValidateXML", "extractLevel">>)
            ELSE parsed(level, parseSVG(f.content, level))
        validated(valid) ==
            IF valid # ""
            THEN res(valid, FALSE, "", NoInfo, <<"ReadFile", "ValidateXML">>)
            ELSE classified(extractLevel(f.name))
    IN  IF ~f.readable THEN res("read error", FALSE, "", NoInfo, <<"ReadFile">>)
        ELSE validated(ValidateXML(f.content))

\* the inputs of the runs explored
FileNames == {"01-context.svg", "context-v2.svg", "02-container.svg", "notes.svg"}

FileContents ==
    { "<svg width=\"400\" height=\"300\" viewBox=\"0 0 400 300\">"
        \o "<g class=\"e\"><a href=\"u\"><rect/></a></g></svg>",
      "<svg width=\"500px\" height=\"400\"><text>t</text></svg>",
      "<svg height=\"0\">x</svg>",
      "<svg><g></svg>",
      "<svg></svg>",
      "<svg a=\">\"></svg>",
      "<!--</svg>--><svg/>" }

Files ==
    [name : FileNames, content : FileContents, readable : {TRUE}]
    \cup [name : FileNames, content : {""}, readable : {FALSE}]

Titles == {"Stack", "R&D"}

\* the listings of at most MaxFiles files, no name twice
Dirs ==
    UNION {{d \in [1..n -> Files] : \A i, j \in 1..n : i # j => d[i].name # d[j].name}
           : n \in 0..MaxFiles}

\* NewSVGStacker(inputDir, outputFile, title) on a directory listing dir
Init ==
    /\ dir \in Dirs
    /\ title \in Titles
    /\ diagrams = NoDiagrams
    /\ pc = "load"
    /\ idx = 1
    /\ err = ""
    /\ out = ""
    /\ hist = <<>>
    /\ arg = ""
    /\ ret = ""
    /\ page = NoPage

\* one iteration of the loop of loadDiagrams, on dir[idx]; hist records what the
\* iteration did and the collection it left
ScanFile ==
    /\ pc = "load"
    /\ idx <= Len(dir)
    /\ \E r \in {scanFile(dir[idx])} :
        \E after \in {IF r.store THEN storeDiagram(diagrams, r.level, r.info) ELSE diagrams} :
           /\ diagrams' = after
           /\ hist' = Append(hist, [calls |-> r.calls, e |-> r.e, after |-> after])
           /\ IF r.e # ""
              THEN pc' = "failed" /\ err' = r.e /\ idx' = idx
              ELSE pc' = "load" /\ err' = err /\ idx' = idx + 1
    /\ UNCHANGED <<dir, title, out, arg, ret, page>>

\* a variant of the end of loadDiagrams that accepts an empty collection
loadDiagramsEnd_acceptEmpty(d) == ""

\* the end of loadDiagrams: the error it returns once every file is scanned
loadDiagramsEnd(d) == IF DOMAIN d = {} THEN "no C4 SVG files found" ELSE ""

EndLoad ==
    /\ pc = "load"
    /\ idx > Len(dir)
    /\ \E e \in {loadDiagramsEnd(diagrams)} :
          IF e # ""
          THEN pc' = "failed" /\ err' = e
          ELSE pc' = "build" /\ err' = err
    /\ UNCHANGED <<dir, title, diagrams, idx, out, hist, arg, ret, page>>

\* CreateStackedSVG after loadDiagrams: buildStackedSVG, then fmt.Print or
\* os.WriteFile
WriteOutput ==
    /\ pc = "build"
    /\ out' = buildStackedSVG(diagrams, title)
    /\ pc' = "done"
    /\ UNCHANGED <<dir, title, diagrams, idx, err, hist, arg, ret, page>>

\* os.WriteFile returns an error
WriteError ==
    /\ pc = "build"
    /\ pc' = "failed"
    /\ err' = "write error"
    /\ UNCHANGED <<dir, title, diagrams, idx, out, hist, arg, ret, page>>

Next == ScanFile \/ EndLoad \/ WriteOutput \/ WriteError

Spec == Init /\ [][Next]_vars

(***************************************************************************)
(* The functions on their own: a call of one function on an argument arg,  *)
(* its result left in ret.  The variables of the run keep the values of a  *)
(* stacker that has not started.                                           *)
(***************************************************************************)
Idle ==
    /\ dir = <<>>
    /\ title = ""
    /\ diagrams = NoDiagrams
    /\ idx = 0
    /\ err = ""
    /\ out = ""
    /\ hist = <<>>
    /\ page = NoPage

RECURSIVE Concat(_)
Concat(q) == IF q = <<>> THEN "" ELSE Head(q) \o Concat(Tail(q))

\* the texts made of at most n of the chunks C
Texts(C, n) == {Concat(q) : q \in UNION {[1..k -> C] : k \in 0..n}}

\* extractLevel on a base name
NameChunks == {"context", "Container", "COMPONENT", "code", "Co", "-"}

InitLevel ==
    /\ Idle
    /\ pc = "call"
    /\ arg \in {t \o ".svg" : t \in Texts(NameChunks, MaxNameChunks)}
    /\ ret = ""

CallExtractLevel ==
    /\ pc = "call"
    /\ ret' = extractLevel(arg)
    /\ pc' = "return"
    /\ UNCHANGED <<dir, title, diagrams, idx, err, out, hist, arg, page>>

SpecLevel == InitLevel /\ [][CallExtractLevel]_vars

\* parseSVG on a document whose root tag is written from a choice of attributes:
\* each of width, height and viewBox absent or present with a value, and
\* possibly one more attribute
Absent == [present |-> FALSE, value |-> ""]

Present(V) == [present : {TRUE}, value : V]

SizeValues ==
    {sign \o digits \o unit :
        sign \in {"", "-"}, digits \in Texts({"0", "5"}, MaxDigits), unit \in {"", "px", "x"}}

writeAttr(name, a) == IF a.present THEN " " \o name \o "=\"" \o a.value \o "\"" ELSE ""

svgDocument(a) ==
    "<svg" \o writeAttr("width", a.width) \o writeAttr("height", a.height)
           \o writeAttr("viewBox", a.viewBox) \o a.other \o "><g/></svg>"

InitParse ==
    /\ Idle
    /\ pc = "call"
    /\ arg \in [width : {Absent} \cup Present(SizeValues),
                height : {Absent} \cup Present(SizeValues),
                viewBox : {Absent} \cup Present({"0 0 10 10"}),
                other : {"", " stroke-width=\"2\""}]
    /\ ret = ""

CallParseSVG ==
    /\ pc = "call"
    /\ ret' = parseSVG(svgDocument(arg), "context")
    /\ pc' = "return"
    /\ UNCHANGED <<dir, title, diagrams, idx, err, out, hist, arg, page>>

SpecParse == InitParse /\ [][CallParseSVG]_vars

\* cleanDiagramContent on a fragment: a group holding a script block, or a group
\* directly wrapping one hyperlink around the content inner
ScriptFragments ==
    {[kind |-> "script", inner |-> body,
      text |-> "<g><script" \o attrs \o ">" \o body \o "</script><rect/></g>"] :
        attrs \in {"", " type=\"text/javascript\""},
        body \in Texts({"a()", ";", "\n"}, MaxChunks)}

LinkFragments ==
    {[kind |-> "link", inner |-> inner,
      text |-> "<g" \o gattrs \o "><a" \o aattrs \o ">" \o inner \o "</a></g>"] :
        gattrs \in {"", " class=\"e\""},
        aattrs \in {" href=\"u\"", " target=\"_top\" href=\"u\" title=\"t\""},
        inner \in Texts({"x", "\n", "<rect/>", "<text>t</text>"}, MaxChunks)}

InitClean ==
    /\ Idle
    /\ pc = "call"
    /\ arg \in ScriptFragments \cup LinkFragments
    /\ ret = ""

CallCleanDiagramContent ==
    /\ pc = "call"
    /\ ret' = cleanDiagramContent(arg.text, "context")
    /\ pc' = "return"
    /\ UNCHANGED <<dir, title, diagrams, idx, err, out, hist, arg, page>>

SpecClean == InitClean /\ [][CallCleanDiagramContent]_vars

(***************************************************************************)
(* Properties of a run of CreateStackedSVG                                 *)
(***************************************************************************)
\* ValidateXML on each content a file of the runs can have
Validity == [c \in FileContents \cup {""} |-> ValidateXML(c)]

\* the file scanned by iteration i of the loop does not parse as XML
Malformed(i) == dir[i].readable /\ Validity[dir[i].content] # ""

\* the collection as iteration i of the loop found it
CollectionBefore(i) == IF i = 1 THEN NoDiagrams ELSE hist[i - 1].after

\* C1: when a file of the directory fails ValidateXML, the run fails with that
\* document's error, the only calls made on the file are ReadFile and
\* ValidateXML (no classification, no extraction), the collection is left as
\* the file found it, the file is the last one scanned, and nothing is written;
\* a run over a directory holding such a file never reaches the build.
C1_WellFormednessGate ==
    /\ \A i \in 1..Len(hist) :
          Malformed(i) =>
             /\ pc = "failed"
             /\ err = Validity[dir[i].content]
             /\ hist[i].calls = <<"ReadFile", "ValidateXML">>
             /\ hist[i].after = CollectionBefore(i)
             /\ Len(hist) = i
             /\ out = ""
    /\ (\E i \in 1..Len(dir) : Malformed(i)) => pc \notin {"build", "done"} /\ out = ""

\* the first of two files is malformed: the run fails with its error and the
\* second file is never scanned
C1_Witness ==
    /\ pc = "failed"
    /\ Len(dir) = 2
    /\ Len(hist) = 1
    /\ Malformed(1)
    /\ extractLevel(dir[1].name) # "unknown"
    /\ err = Validity[dir[1].content]

\* C2 as stated: a file whose name holds no level keyword adds no record and
\* never makes the run fail, whatever its content.
C2_UnmatchedNeverFails ==
    \A i \in 1..Len(hist) :
        extractLevel(dir[i].name) = "unknown" =>
            hist[i].e = "" /\ hist[i].after = CollectionBefore(i)

\* C2, amended: a file whose name holds no level keyword adds no record and is
\* never handed to parseSVG, and the run fails on it exactly when the file
\* cannot be read or does not pass ValidateXML, with that error.
C2_UnmatchedSkippedAfterGate ==
    \A i \in 1..Len(hist) :
        extractLevel(dir[i].name) = "unknown" =>
            /\ hist[i].after = CollectionBefore(i)
            /\ \A k \in 1..Len(hist[i].calls) : hist[i].calls[k] # "parseSVG"
            /\ hist[i].e = (IF ~dir[i].readable THEN "read error"
                            ELSE Validity[dir[i].content])

\* an unmatched file that parseSVG would reject is passed over without error,
\* after a diagram was loaded, and the run completes
C2_Witness ==
    /\ pc = "done"
    /\ Len(hist) = 2
    /\ extractLevel(dir[2].name) = "unknown"
    /\ dir[2].readable
    /\ parseSVG(dir[2].content, "unknown").e # ""
    /\ hist[2].e = ""
    /\ hist[2].after = hist[1].after

(***************************************************************************)
(* Properties of extractLevel                                              *)
(***************************************************************************)
\* C3: extractLevel returns the first of context, container, component, code
\* that the lower-cased name contains, whatever the positions of the keywords
\* in the name, and "unknown" exactly when the name contains none of them.
C3_LevelClassifier ==
    pc = "return" =>
        LET has(k) == Contains(ToLower(arg), levels[k])
        IN  /\ \A k \in 1..Len(levels) :
                 (has(k) /\ \A j \in 1..(k - 1) : ~has(j)) => ret = levels[k]
            /\ (ret = "unknown") <=> (\A k \in 1..Len(levels) : ~has(k))

\* a name with a later keyword first and in mixed case
C3_Witness ==
    /\ pc = "return"
    /\ arg = "code-Container.svg"
    /\ ret = "container"

(***************************************************************************)
(* Properties of the collection of records                                 *)
(***************************************************************************)
LevelSet == {levels[k] : k \in 1..Len(levels)}

\* parseSVG on each content a file of the runs can have, for each level
Extracted == [c \in FileContents, l \in LevelSet |-> parseSVG(c, l)]

\* whether the root element of a document has nothing between its opening tag
\* and its closing tag (or is a self-closing tag): the token after the first
\* start-element token of the document is its end-element token
RootIsEmpty ==
    [c \in FileContents |->
        LET toks == Decode(c).toks
            starts == {k \in 1..Len(toks) : toks[k].k = "start"}
            first == CHOOSE k \in starts : \A j \in starts : k <= j
        IN  /\ starts # {}
            /\ first + 1 <= Len(toks)
            /\ toks[first + 1].k = "end"]

\* C4 as stated: every record of the collection has height > 0 and
\* aspectRatio > 0.
C4_PositiveHeightAndRatio ==
    \A l \in DOMAIN diagrams :
        FloatPositive(diagrams[l].height) /\ FloatPositive(diagrams[l].aspectRatio)

\* C5: the collection holds records for levels only, one per level, and the
\* record of a level is the one parseSVG computes from the last file scanned
\* without error whose name classifies to that level; a level no scanned file
\* classifies to has no record.
C5_LastFileWins ==
    /\ DOMAIN diagrams \subseteq LevelSet
    /\ \A l \in LevelSet :
          LET scanned == {i \in 1..Len(hist) :
                            hist[i].e = "" /\ extractLevel(dir[i].name) = l}
              last == CHOOSE i \in scanned : \A j \in scanned : j <= i
          IN  IF scanned = {} THEN l \notin DOMAIN diagrams
              ELSE /\ l \in DOMAIN diagrams
                   /\ diagrams[l] = Extracted[dir[last].content, l].info

\* two files of the level context with different records were scanned, and the
\* collection holds the record of the second
C5_Witness ==
    /\ Len(hist) = 2
    /\ hist[1].e = "" /\ hist[2].e = ""
    /\ extractLevel(dir[1].name) = "context"
    /\ extractLevel(dir[2].name) = "context"
    /\ hist[1].after["context"] = Extracted[dir[1].content, "context"].info
    /\ Extracted[dir[1].content, "context"].info # Extracted[dir[2].content, "context"].info
    /\ DOMAIN diagrams = {"context"}
    /\ diagrams["context"] = Extracted[dir[2].content, "context"].info

\* C6 as stated: a level gets a record only from a document that passed
\* ValidateXML and has a non-empty root; a well-formed document of a level with
\* an empty root, or with no closing root tag, yields an error and no record.
C6_RecordOnlyFromNonEmptyFragment ==
    \A i \in 1..Len(hist) :
        LET level == extractLevel(dir[i].name)
            content == dir[i].content
        IN  /\ (level \in DOMAIN hist[i].after /\ level \notin DOMAIN CollectionBefore(i)) =>
                  Validity[content] = "" /\ ~RootIsEmpty[content]
            /\ (dir[i].readable /\ level # "unknown" /\ Validity[content] = ""
                  /\ RootIsEmpty[content]) =>
                  hist[i].e # "" /\ hist[i].after = CollectionBefore(i)

\* C10 as stated: the composite document a completed run has written parses as
\* XML to the end without error.
C10_CompositeWellFormed ==
    pc = "done" => ValidateXML(out) = ""

(***************************************************************************)
(* Properties of parseSVG and cleanDiagramContent                          *)
(***************************************************************************)
\* the number a width or height attribute a of the root tag stands for: the
\* value without a trailing "px" when that parses, and otherwise the default
ExpectedSize(a, default) ==
    LET parsed(r) == IF r.err THEN Float(default) ELSE r.v
    IN  IF a.present THEN parsed(ParseFloat(TrimSuffix(a.value, "px")))
        ELSE Float(default)

\* C7 as stated: parseSVG on a document whose root tag carries the attributes
\* arg does not fail; width and height are the numbers of the root's width and
\* height attributes, a trailing "px" stripped, 400 and 300 when the attribute
\* is missing or does not parse, each whatever the other attributes are; the
\* viewBox is the root's, "0 0 400 300" when it is missing.
C7_SizeDefaults ==
    pc = "return" =>
        /\ ret.e = ""
        /\ ret.info.width = ExpectedSize(arg.width, 400)
        /\ ret.info.height = ExpectedSize(arg.height, 300)
        /\ ret.info.viewBox =
              (IF arg.viewBox.present THEN arg.viewBox.value ELSE "0 0 400 300")

\* C8 as stated: the output of cleanDiagramContent on a fragment holding a
\* <script>...</script> block, whatever the block's attributes and content,
\* does not contain "<script".
C8_NoScriptLeft ==
    (pc = "return" /\ arg.kind = "script") => ~Contains(ret, "<script")

\* the number of occurrences of sub in s from position from on, not overlapping
RECURSIVE Occurrences(_, _, _)
Occurrences(s, sub, from) ==
    LET count(i) == IF i = 0 THEN 0 ELSE 1 + Occurrences(s, sub, i + Len(sub))
    IN  count(IndexFrom(s, sub, from))

\* C9 as stated: the output of cleanDiagramContent on a group directly wrapping
\* one hyperlink around inner holds no <a> start or end tag, holds
\* onclick="navigateDown()" exactly once and inside the group's start tag, is
\* the group's start tag followed by inner and the group's end tag, and parses
\* as XML inside a neutral root element.
C9_LinkBecomesClick ==
    (pc = "return" /\ arg.kind = "link") =>
        LET onclick == "onclick=\"navigateDown()\""
            gEnd == Index(ret, ">")
        IN  /\ ~Contains(ret, "<a ") /\ ~Contains(ret, "<a>") /\ ~Contains(ret, "</a>")
            /\ Occurrences(ret, onclick, 1) = 1
            /\ HasPrefixAt(ret, "<g", 1)
            /\ Index(ret, onclick) < gEnd
            /\ From(ret, gEnd + 1) = arg.inner \o "</g>"
            /\ ValidateXML("<root>" \o ret \o "</root>") = ""

(***************************************************************************)
(* buildStackedSVG on its own: calls of s.buildStackedSVG() on a stacker   *)
(* whose collection diagrams and title are given.  The collection is a Go  *)
(* map, so the order in which a range over it visits its keys is not fixed *)
(* and may differ from one call to the next: arg is that order for the     *)
(* next call.  hist lists the results of the calls made.                   *)
(***************************************************************************)
\* the record of each level, as parseSVG makes it from a document of that level
RecordOf ==
    [l \in LevelSet |->
        parseSVG(IF l \in {"context", "component"}
                 THEN "<svg width=\"400\" height=\"300\" viewBox=\"0 0 400 300\"><rect/></svg>"
                 ELSE "<svg width=\"500px\" height=\"400\"><text>t</text></svg>", l).info]

\* the collections: any of the levels with its record
Collections == {[l \in S |-> RecordOf[l]] : S \in SUBSET LevelSet}

\* the orders in which the keys S of a map can be visited
Orders(S) ==
    {q \in [1..Cardinality(S) -> S] : \A i, j \in 1..Cardinality(S) : i # j => q[i] # q[j]}

InitBuild ==
    /\ dir = <<>>
    /\ title \in Titles
    /\ diagrams \in Collections
    /\ pc = "call"
    /\ idx = 0
    /\ err = ""
    /\ out = ""
    /\ hist = <<>>
    /\ arg \in Orders(DOMAIN diagrams)
    /\ ret = ""
    /\ page = NoPage

CallBuildStackedSVG ==
    /\ pc = "call"
    /\ Len(hist) < MaxCalls
    /\ \E stackedSVG \in {buildStackedSVG(diagrams, title)} :
          /\ out' = stackedSVG
          /\ hist' = Append(hist, stackedSVG)
    /\ arg' \in Orders(DOMAIN diagrams)
    /\ UNCHANGED <<dir, title, diagrams, pc, idx, err, ret, page>>

SpecBuild == InitBuild /\ [][CallBuildStackedSVG]_vars


(***************************************************************************)
(* Properties of buildStackedSVG                                           *)
(***************************************************************************)
\* the position of a level in the fixed order
LevelIndex(l) == CHOOSE k \in 1..Len(levels) : levels[k] = l

\* the text of s between the first occurrence of open and the next close
Between(s, open, close) ==
    LET cut(a, b) == IF a = 0 \/ b = 0 THEN "" ELSE Sub(s, a, b - 1)
        from(a) == cut(a, IndexFrom(s, close, a))
        at(i) == IF i = 0 THEN "" ELSE from(i + Len(open))
    IN  at(Index(s, open))

\* the pieces of s that start with an occurrence of sep, p being the position
\* of the first (0 for none)
RECURSIVE Pieces(_, _, _)
Pieces(s, sep, p) ==
    LET rest(next) ==
            <<Sub(s, p, IF next = 0 THEN Len(s) ELSE next - 1)>> \o Pieces(s, sep, next)
    IN  IF p = 0 THEN <<>> ELSE rest(IndexFrom(s, sep, p + 1))

\* a navigation button read from its text: the level of its id, the x of its
\* rectangle, the x of its label, and its text up to </text> without the two x
\* values
ReadButton(b) ==
    LET q1 == Index(b, "\" y=")
        t == Index(b, "<text x=\"")
        q2 == IndexFrom(b, "\" y=", t)
    IN  [level |-> Between(b, "id=\"nav-", "\""),
         rectX |-> Atoi(Sub(b, 10, q1 - 1)),
         textX |-> Atoi(Sub(b, t + 9, q2 - 1)),
         rest |-> Sub(b, q1, t + 8) \o Sub(b, q2, Index(b, "</text>") + 6)]

\* a layer read from its text: the level of its id, whether it is hidden,
\* whether it is the "not found" placeholder, and its text
ReadLayer(t) ==
    [level |-> Between(t, "<g id=\"layer-", "\""),
     hidden |-> Between(t, "<g id=\"layer-", ">")
                   = Between(t, "<g id=\"layer-", "\"") \o "\" style=\"display:none\"",
     placeholder |-> Contains(t, " diagram not found"),
     text |-> Sub(t, Index(t, "<g id=\"layer-"), LastIndex(t, "</g>") + 3)]

\* the navigation buttons and the layers of a composite document, in the order
\* of the document
ReadDocument(doc) ==
    LET nav == Between(doc, "<!-- Navigation Buttons -->", "<!-- Notes Toggle")
        lay == Between(doc, "<!-- Diagram Layers", "<!-- Navigation Script -->")
        buttons == Pieces(nav, "<rect x=\"", Index(nav, "<rect x=\""))
        layers == Pieces(lay, "<!-- ", Index(lay, "<!-- "))
    IN  [buttons |-> [i \in 1..Len(buttons) |-> ReadButton(buttons[i])],
         layers |-> [i \in 1..Len(layers) |-> ReadLayer(layers[i])]]

\* the documents buildStackedSVG makes of each collection and title, read
Rendered ==
    [d \in Collections |-> [t \in Titles |-> ReadDocument(buildStackedSVG(d, t))]]

\* the collection d without the record of level l
Without(d, l) == [m \in DOMAIN d \ {l} |-> d[m]]

\* in the document read as r, level l has no button and its layer is the
\* placeholder
AbsentLevelRendered(r, l) ==
    /\ \A i \in 1..Len(r.buttons) : r.buttons[i].level # l
    /\ \E i \in 1..Len(r.layers) : r.layers[i].level = l /\ r.layers[i].placeholder

\* C11 as stated: a level without a record has a "not found" placeholder layer
\* and no button, and the document built without the record of a level l has,
\* for the other levels, the buttons (x positions included) and the layers of
\* the document built with it, in the same order.
C11_RemovalLeavesOthersUnchanged ==
    Len(hist) > 0 =>
        LET with == ReadDocument(out)
        IN  /\ \A l \in LevelSet \ DOMAIN diagrams : AbsentLevelRendered(with, l)
            /\ \A l \in DOMAIN diagrams :
                  LET without == Rendered[Without(diagrams, l)][title]
                      other(x) == x.level # l
                  IN  /\ AbsentLevelRendered(without, l)
                      /\ without.buttons = SelectSeq(with.buttons, other)
                      /\ SelectSeq(without.layers, other) = SelectSeq(with.layers, other)

\* C11, amended: as C11, except that the buttons are packed from the left: a
\* remaining button keeps everything but its x positions, which move one slot
\* (117) to the left when the removed level comes before its level in the
\* fixed order and stay otherwise.
C11_RemovalRepacksButtons ==
    Len(hist) > 0 =>
        LET with == ReadDocument(out)
        IN  /\ \A l \in LevelSet \ DOMAIN diagrams : AbsentLevelRendered(with, l)
            /\ \A l \in DOMAIN diagrams :
                  LET without == Rendered[Without(diagrams, l)][title]
                      other(x) == x.level # l
                      kept == SelectSeq(with.buttons, other)
                      moved(b) == IF LevelIndex(l) < LevelIndex(b.level)
                                  THEN [b EXCEPT !.rectX = @ - 117, !.textX = @ - 117]
                                  ELSE b
                  IN  /\ AbsentLevelRendered(without, l)
                      /\ without.buttons = [i \in 1..Len(kept) |-> moved(kept[i])]
                      /\ SelectSeq(without.layers, other) = SelectSeq(with.layers, other)

\* a document built from records for context and component only: container has
\* the placeholder and no button, and component's button sits in the second slot
C11_Witness ==
    /\ Len(hist) = 1
    /\ DOMAIN diagrams = {"context", "component"}
    /\ AbsentLevelRendered(ReadDocument(out), "container")
    /\ Len(ReadDocument(out).buttons) = 2
    /\ ReadDocument(out).buttons[2].level = "component"
    /\ ReadDocument(out).buttons[2].rectX = 143


\* C12: the document has one navigation button for each level with a record
\* and none for any other level, the buttons are in the order context,
\* container, component, code with strictly increasing x positions, and there
\* are four layers, one per level in that order, each hidden with display:none,
\* whatever the records are.
C12_ButtonsAndLayers ==
    Len(hist) > 0 =>
        LET r == ReadDocument(out)
        IN  /\ Occurrences(out, "id=\"nav-", 1) = Len(r.buttons)
            /\ \A i \in 1..Len(r.buttons) : r.buttons[i].level \in DOMAIN diagrams
            /\ \A l \in DOMAIN diagrams :
                  Cardinality({i \in 1..Len(r.buttons) : r.buttons[i].level = l}) = 1
            /\ \A i, j \in 1..Len(r.buttons) :
                  i < j => /\ LevelIndex(r.buttons[i].level) < LevelIndex(r.buttons[j].level)
                           /\ r.buttons[i].rectX < r.buttons[j].rectX
                           /\ r.buttons[i].textX < r.buttons[j].textX
            /\ Occurrences(out, "<g id=\"layer-", 1) = 4
            /\ Len(r.layers) = 4
            /\ \A k \in 1..4 : r.layers[k].level = levels[k] /\ r.layers[k].hidden

\* a document built from records for container and code: two buttons, in that
\* order, in the first two slots, and four layers
C12_Witness ==
    /\ Len(hist) > 0
    /\ DOMAIN diagrams = {"container", "code"}
    /\ LET r == ReadDocument(out)
       IN  /\ Len(r.buttons) = 2
           /\ r.buttons[1].level = "container" /\ r.buttons[1].rectX = 26
           /\ r.buttons[2].level = "code" /\ r.buttons[2].rectX = 143
           /\ Len(r.layers) = 4
           /\ r.layers[1].placeholder /\ ~r.layers[2].placeholder


\* the levels of the fixed order that have a record in d, in that order
ExistingLevels(d) ==
    LET exists(l) == l \in DOMAIN d
    IN  SelectSeq(levels, exists)

\* the entries of the diagramData table of the script payload, in order: the
\* level and the texts of its width, height and ratio
ReadDiagramData(doc) ==
    LET table == Between(doc, "const diagramData = {\n", "\n};")
        entries == Pieces(table, "  '", Index(table, "  '"))
    IN  [i \in 1..Len(entries) |->
            [level |-> Between(entries[i], "'", "'"),
             width |-> Between(entries[i], "width: ", ","),
             height |-> Between(entries[i], "height: ", ","),
             ratio |-> Between(entries[i], "ratio: ", " }")]]

\* the text of the availableLevels list of the script payload
ReadAvailableLevels(doc) == Between(doc, "const availableLevels = [", "]")

\* the quoted names q, separated by ", "
RECURSIVE QuotedList(_)
QuotedList(q) ==
    IF q = <<>> THEN ""
    ELSE "'" \o Head(q) \o "'" \o (IF Len(q) > 1 THEN ", " ELSE "") \o QuotedList(Tail(q))

\* ratio is w/h written with two decimals: digits, a point and two digits, the
\* number they spell being within half a hundredth of w/h
TwoDecimalsOf(ratio, w, h) ==
    LET point == Index(ratio, ".")
        hundredths == Atoi(Sub(ratio, 1, point - 1) \o From(ratio, point + 1))
        diff == hundredths * h - 100 * w
    IN  /\ point > 1
        /\ Len(ratio) = point + 2
        /\ 2 * (IF diff < 0 THEN -diff ELSE diff) <= h

\* C13: the diagramData table of the script payload has one entry for each
\* level with a record, in the fixed order, and no other entry; the entry gives
\* the width and the height of the record and their quotient to two decimals;
\* availableLevels lists the levels with a record, in the fixed order.
C13_ScriptPayload ==
    Len(hist) > 0 =>
        LET data == ReadDiagramData(out)
            existing == ExistingLevels(diagrams)
        IN  /\ Occurrences(out, "const diagramData = {", 1) = 1
            /\ Occurrences(out, "const availableLevels = [", 1) = 1
            /\ [i \in 1..Len(data) |-> data[i].level] = existing
            /\ \A i \in 1..Len(data) :
                  LET record == diagrams[data[i].level]
                  IN  /\ data[i].width = Itoa(record.width.num)
                      /\ data[i].height = Itoa(record.height.num)
                      /\ TwoDecimalsOf(data[i].ratio, record.width.num, record.height.num)
            /\ ReadAvailableLevels(out) = QuotedList(existing)

\* the records 400x300 for context and 500x400 for container give two entries,
\* with the ratios 1.33 and 1.25
C13_Witness ==
    /\ Len(hist) > 0
    /\ DOMAIN diagrams = {"context", "container"}
    /\ LET data == ReadDiagramData(out)
       IN  /\ Len(data) = 2
           /\ data[1] = [level |-> "context", width |-> "400", height |-> "300", ratio |-> "1.33"]
           /\ data[2] = [level |-> "container", width |-> "500", height |-> "400", ratio |-> "1.25"]
    /\ ReadAvailableLevels(out) = "'context', 'container'"


Groups == {"wrapper", "note", "entity", "link1", "link2"}

\* the class attribute of each group
GroupClass ==
    [g \in Groups |->
        CASE g \in {"note", "entity"} -> "entity"
          [] g \in {"link1", "link2"} -> "link"
          [] OTHER -> ""]

\* the groups g for which g.querySelector('path[fill="#FEFFDD"]') finds a path:
\* the note and the wrapper it lies in
ContainsNotePath == {"wrapper", "note"}

Links == {g \in Groups : GroupClass[g] = "link"}

\* the links g for which g.querySelectorAll('text') is not empty
Labelled == {"link1"}

Scripts == {"navigation.js", "part_004"}

Viewports == {<<300, 200>>, <<1920, 1080>>}

\* availableLevels and diagramData as buildStackedSVG injects them
AvailableLevels(d) ==
    LET exists(l) == l \in DOMAIN d
    IN  SelectSeq(levels, exists)

DiagramData(d) == [l \in DOMAIN d |-> [width |-> d[l].width.num, height |-> d[l].height.num]]

\* availableLevels.indexOf(level), from 0, -1 when absent
IndexOf(q, level) ==
    IF \E i \in 1..Len(q) : q[i] = level
    THEN (CHOOSE i \in 1..Len(q) : q[i] = level) - 1
    ELSE -1

\* the document as the browser has parsed it, before the script runs
ParsedPage(d, viewport, script) ==
    [loaded |-> TRUE,
     script |-> script,
     currentLevel |-> "context", fitToWidth |-> FALSE, notesVisible |-> TRUE,
     layerDisplay |-> [l \in {levels[k] : k \in 1..Len(levels)} |-> "none"],
     navFill |-> [l \in DOMAIN d |-> "#3498db"],
     fitText |-> "\n    Native Size\n  ",
     notesText |-> "\n    Hide Notes\n  ",
     toggleX |-> [fitToggle |-> 520, fitText |-> 533, notesToggle |-> 364, notesText |-> 377],
     groupDisplay |-> [l \in DOMAIN d |-> [g \in Groups |-> ""]],
     linkOrder |-> [l \in DOMAIN d |-> <<"link1", "link2">>],
     dimmed |-> [l \in DOMAIN d |-> {}],
     hovering |-> [l \in DOMAIN d |-> 0],
     overlays |-> [l \in DOMAIN d |-> [g \in Links |-> 0]],
     highlighted |-> [l \in DOMAIN d |-> {}],
     raised |-> [l \in DOMAIN d |-> [g \in Links |-> 0]],
     pointer |-> <<>>,
     timers |-> 0,
     viewport |-> viewport,
     svgSize |-> <<1920, 1080>>,
     containerSize |-> [l \in DOMAIN d |-> <<99999, 99999>>],
     diagramSize |-> [l \in DOMAIN d |-> <<99999, 99999>>]]

positionRightAlignedElements(p) ==
    LET fitToggleX == p.viewport[1] - 156
        notesToggleX == fitToggleX - 143
    IN  [p EXCEPT !.toggleX = [fitToggle |-> fitToggleX, fitText |-> fitToggleX + 13,
                               notesToggle |-> notesToggleX, notesText |-> notesToggleX + 13]]

\* a variant of resizeContainers that never makes the outer <svg> smaller in
\* native mode
resizeContainers_neverShrink(d, p) ==
    LET viewportWidth == p.viewport[1]
        viewportHeight == p.viewport[2]
        level == p.currentLevel
        data == DiagramData(d)[level]
    IN  IF level \notin DOMAIN d THEN p
        ELSE IF p.fitToWidth
        THEN [p EXCEPT !.svgSize = <<viewportWidth, viewportHeight>>,
                       !.containerSize[level] = <<viewportWidth - 20, viewportHeight - 160>>,
                       !.diagramSize[level] = <<viewportWidth - 20 - 10, viewportHeight - 160 - 10>>]
        ELSE [p EXCEPT !.svgSize = <<Max({p.svgSize[1], viewportWidth, data.width + 30}),
                                     Max({p.svgSize[2], viewportHeight, 140 + data.height + 30})>>,
                       !.containerSize[level] = <<data.width + 20, data.height + 20>>,
                       !.diagramSize[level] = <<data.width, data.height>>]

\* resizeContainers in the document of the collection d
resizeContainers(d, p) ==
    LET viewportWidth == p.viewport[1]
        viewportHeight == p.viewport[2]
        level == p.currentLevel
        data == DiagramData(d)[level]
    IN  IF level \notin DOMAIN d THEN p
        ELSE IF p.fitToWidth
        THEN [p EXCEPT !.svgSize = <<viewportWidth, viewportHeight>>,
                       !.containerSize[level] = <<viewportWidth - 20, viewportHeight - 160>>,
                       !.diagramSize[level] = <<viewportWidth - 20 - 10, viewportHeight - 160 - 10>>]
        ELSE [p EXCEPT !.svgSize = <<Max({viewportWidth, data.width + 30}),
                                     Max({viewportHeight, 140 + data.height + 30})>>,
                       !.containerSize[level] = <<data.width + 20, data.height + 20>>,
                       !.diagramSize[level] = <<data.width, data.height>>]

\* setupLinkHoverEnhancements; the layer of a level without a record has no
\* g.link.  navigation.js: one more pair of listeners on each g.link of the
\* current layer.  part_004: one more hit region and one more highlight
\* background before the first text of each labelled g.link of the current
\* layer, with a pair of listeners on the new hit region.
setupLinkHoverEnhancements(d, p) ==
    IF p.currentLevel \notin DOMAIN d THEN p
    ELSE IF p.script = "navigation.js"
    THEN [p EXCEPT !.hovering[p.currentLevel] = @ + 1]
    ELSE [p EXCEPT !.overlays[p.currentLevel] =
                      [g \in Links |-> IF g \in Labelled THEN @[g] + 1 ELSE @[g]]]

\* a variant of showLevel that hides the layers of all four levels
showLevel_hideAll(d, p, level) ==
    setupLinkHoverEnhancements(d,
        [p EXCEPT !.layerDisplay = [l \in DOMAIN p.layerDisplay |->
                                       IF l = level THEN "block" ELSE "none"],
                  !.navFill = [l \in DOMAIN d |-> IF l = level THEN "#e74c3c" ELSE "#3498db"],
                  !.currentLevel = level,
                  !.timers = @ + 1])

\* showLevel(level): every document has a <g id="layer-L"> for each of the four
\* levels, and a <rect id="nav-L"> for the levels of availableLevels
showLevel(d, p, level) ==
    setupLinkHoverEnhancements(d,
        [p EXCEPT !.layerDisplay = [l \in DOMAIN p.layerDisplay |->
                                       IF l = level THEN "block"
                                       ELSE IF l \in DOMAIN d THEN "none"
                                       ELSE p.layerDisplay[l]],
                  !.navFill = [l \in DOMAIN d |-> IF l = level THEN "#e74c3c" ELSE "#3498db"],
                  !.currentLevel = level,
                  !.timers = @ + 1])

\* a variant of navigateDown that steps through all four levels
navigateDown_allLevels(d, p) ==
    LET currentIndex == IndexOf(levels, p.currentLevel)
    IN  IF currentIndex < Len(levels) - 1
        THEN showLevel(d, p, levels[currentIndex + 2])
        ELSE p

navigateDown(d, p) ==
    LET currentIndex == IndexOf(AvailableLevels(d), p.currentLevel)
    IN  IF currentIndex < Len(AvailableLevels(d)) - 1
        THEN showLevel(d, p, AvailableLevels(d)[currentIndex + 2])
        ELSE p

navigateUp(d, p) ==
    LET currentIndex == IndexOf(AvailableLevels(d), p.currentLevel)
    IN  IF currentIndex > 0
        THEN showLevel(d, p, AvailableLevels(d)[currentIndex])
        ELSE p

\* a variant of toggleFitMode that leaves the layout to a timer
toggleFitMode_deferred(d, p) ==
    [p EXCEPT !.fitToWidth = ~@,
              !.fitText = IF ~p.fitToWidth THEN "Auto Scale" ELSE "Native Size",
              !.timers = @ + 1]

toggleFitMode(d, p) ==
    resizeContainers(d,
        [p EXCEPT !.fitToWidth = ~@,
                  !.fitText = IF ~p.fitToWidth THEN "Auto Scale" ELSE "Native Size"])

\* a variant of toggleNotes that takes every group with a note path for a note
toggleNotes_anyGroup(d, p) ==
    [p EXCEPT !.notesVisible = ~@,
              !.notesText = IF ~p.notesVisible THEN "Hide Notes" ELSE "Show Notes",
              !.groupDisplay =
                  [l \in DOMAIN d |->
                      [g \in Groups |->
                          IF g \in ContainsNotePath
                          THEN (IF ~p.notesVisible THEN "block" ELSE "none")
                          ELSE p.groupDisplay[l][g]]]]

toggleNotes(d, p) ==
    [p EXCEPT !.notesVisible = ~@,
              !.notesText = IF ~p.notesVisible THEN "Hide Notes" ELSE "Show Notes",
              !.groupDisplay =
                  [l \in DOMAIN d |->
                      [g \in Groups |->
                          IF GroupClass[g] = "entity" /\ g \in ContainsNotePath
                          THEN (IF ~p.notesVisible THEN "block" ELSE "none")
                          ELSE p.groupDisplay[l][g]]]]

\* parent.appendChild(link): the link goes to the end of its parent
appendChild(order, g) ==
    LET other(x) == x # g
    IN  Append(SelectSeq(order, other), g)

\* the pointer enters the link g of the diagram of level l.  navigation.js:
\* the listeners of the link move it to the end of its parent and dim the
\* other links.  part_004: the pointer is on the topmost hit region of the
\* link, the one made last, whose listener moves the link to the end of its
\* parent, gives it the class highlighted and raises the opacity of the
\* background made with that hit region.
mouseenter(p, l, g) ==
    IF p.script = "navigation.js"
    THEN [p EXCEPT !.linkOrder[l] = appendChild(@, g),
                   !.dimmed[l] = @ \cup (Links \ {g}),
                   !.pointer = <<l, g>>]
    ELSE [p EXCEPT !.linkOrder[l] = appendChild(@, g),
                   !.highlighted[l] = @ \cup {g},
                   !.raised[l][g] = p.overlays[l][g],
                   !.pointer = <<l, g>>]

\* the pointer leaves the link g.  navigation.js: no link is dimmed any more.
\* part_004: the listener of the topmost hit region removes the class
\* highlighted and sets the opacity of its own background to 0.
mouseleave(p, l, g) ==
    IF p.script = "navigation.js"
    THEN [p EXCEPT !.dimmed[l] = {}, !.pointer = <<>>]
    ELSE [p EXCEPT !.highlighted[l] = @ \ {g},
                   !.raised[l][g] = IF @ = p.overlays[l][g] THEN 0 ELSE @,
                   !.pointer = <<>>]

\* the top level of the script: lines run when the document is loaded
loadScript(d, p) ==
    resizeContainers(d, positionRightAlignedElements(showLevel(d, p, "context")))


(***************************************************************************)
(* The client engine as a state machine: the browser parses the composite  *)
(* document of a non-empty collection, runs the script, and then delivers  *)
(* events one at a time.  pc is the handler that ran last, ret the one     *)
(* before it, arg the argument of the last one, idx the number of events   *)
(* delivered and hist the pages the last two events found, the older one   *)
(* first.                                                                  *)
(***************************************************************************)
MaxEvents == 3

InitClient ==
    /\ dir = <<>>
    /\ title = "Stack"
    /\ diagrams \in Collections \ {NoDiagrams}
    /\ pc = "parsed"
    /\ idx = 0
    /\ err = ""
    /\ out = ""
    /\ hist = <<>>
    /\ arg = ""
    /\ ret = ""
    /\ \E viewport \in Viewports, script \in Scripts :
          page = ParsedPage(diagrams, viewport, script)

\* the event handler named handler ran with argument a and left the page q
Delivered(handler, a, q) ==
    /\ pc # "parsed"
    /\ idx < MaxEvents
    /\ page' = q
    /\ pc' = handler
    /\ ret' = pc
    /\ arg' = a
    /\ idx' = idx + 1
    /\ hist' = IF Len(hist) < 2 THEN Append(hist, page) ELSE <<hist[2], page>>
    /\ UNCHANGED <<dir, title, diagrams, err, out>>

LoadDocument ==
    /\ pc = "parsed"
    /\ page' = loadScript(diagrams, page)
    /\ pc' = "load"
    /\ UNCHANGED <<dir, title, diagrams, idx, err, out, hist, arg, ret>>

\* a click on the navigation button of a level: onclick="showLevel('L')"
ClickShowLevel ==
    \E level \in DOMAIN diagrams :
        Delivered("showLevel", level, showLevel(diagrams, page, level))

CallNavigateDown ==
    \E q \in {navigateDown(diagrams, page)} : Delivered("navigateDown", "", q)

CallNavigateUp ==
    \E q \in {navigateUp(diagrams, page)} : Delivered("navigateUp", "", q)

ClickToggleFitMode ==
    \E q \in {toggleFitMode(diagrams, page)} : Delivered("toggleFitMode", "", q)

ClickToggleNotes ==
    \E q \in {toggleNotes(diagrams, page)} : Delivered("toggleNotes", "", q)

\* a setTimeout(resizeContainers, 10) of showLevel comes due
TimerFires ==
    /\ page.timers > 0
    /\ Delivered("timer", "", [resizeContainers(diagrams, page) EXCEPT !.timers = @ - 1])

\* the window takes another size: the resize listener
WindowResize ==
    \E viewport \in Viewports \ {page.viewport} :
        Delivered("resize", "",
                  resizeContainers(diagrams,
                      positionRightAlignedElements([page EXCEPT !.viewport = viewport])))

\* the link g of the diagram of level l has mouseenter and mouseleave
\* listeners, on itself or on a hit region
Listening(p, l, g) ==
    IF p.script = "navigation.js" THEN p.hovering[l] > 0 ELSE p.overlays[l][g] > 0

\* the pointer, over no link, enters a link of a displayed diagram that has
\* listeners
MouseEnter ==
    \E l \in DOMAIN diagrams, g \in Links :
        /\ page.layerDisplay[l] = "block"
        /\ page.pointer = <<>>
        /\ Listening(page, l, g)
        /\ Delivered("mouseenter", g, mouseenter(page, l, g))

\* the pointer leaves the link it is over
MouseLeave ==
    \E l \in DOMAIN diagrams, g \in Links :
        /\ page.pointer = <<l, g>>
        /\ Listening(page, l, g)
        /\ Delivered("mouseleave", g, mouseleave(page, l, g))

NextClient ==
    \/ LoadDocument
    \/ ClickShowLevel
    \/ CallNavigateDown
    \/ CallNavigateUp
    \/ ClickToggleFitMode
    \/ ClickToggleNotes
    \/ TimerFires
    \/ WindowResize
    \/ MouseEnter
    \/ MouseLeave

SpecClient == InitClient /\ [][NextClient]_vars


(***************************************************************************)
(* Properties of the client engine                                         *)
(***************************************************************************)
\* the layers whose style.display is not none
Displayed(p) == {l \in DOMAIN p.layerDisplay : p.layerDisplay[l] # "none"}

\* C15: when the composite document has been loaded, the displayed level is
\* the first existing level in the fixed order (the first element of
\* availableLevels), the scaling mode is native and notes are shown, for
\* every non-empty set of existing levels.
C15_InitialState ==
    pc = "load" =>
        /\ page.currentLevel = AvailableLevels(diagrams)[1]
        /\ Displayed(page) = {AvailableLevels(diagrams)[1]}
        /\ ~page.fitToWidth
        /\ page.notesVisible

\* C16: in the state right after any showLevel(L), the layer of L is the
\* only one of the four layers that is displayed, the placeholder layers of
\* the levels without a record included, whatever events came before.
C16_OnlyShownLayerDisplayed ==
    pc = "showLevel" => Displayed(page) = {arg}


\* the existing levels after, and before, the level l in the fixed order
LevelsAfter(d, l) == {x \in DOMAIN d : LevelIndex(x) > LevelIndex(l)}

LevelsBefore(d, l) == {x \in DOMAIN d : LevelIndex(x) < LevelIndex(l)}

\* the level of the least, and of the greatest, position among those of S
FirstOf(S) == CHOOSE x \in S : \A y \in S : LevelIndex(x) <= LevelIndex(y)

LastOf(S) == CHOOSE x \in S : \A y \in S : LevelIndex(x) >= LevelIndex(y)

\* the step is a call of the handler named handler
Handles(handler) == pc' = handler /\ idx' = idx + 1

\* C17: navigateDown moves the displayed level to the next existing level in
\* the fixed order and navigateUp to the previous one; when there is none
\* the call changes nothing: the displayed level, the layer visibilities,
\* the scaling mode and the notes flag stay as they are, and no error is
\* raised.
C17_NavigateDownUp ==
    [][/\ Handles("navigateDown") =>
            IF LevelsAfter(diagrams, page.currentLevel) # {}
            THEN /\ page'.currentLevel = FirstOf(LevelsAfter(diagrams, page.currentLevel))
                 /\ page'.layerDisplay[page'.currentLevel] = "block"
                 /\ err' = ""
            ELSE page' = page /\ err' = ""
       /\ Handles("navigateUp") =>
            IF LevelsBefore(diagrams, page.currentLevel) # {}
            THEN /\ page'.currentLevel = LastOf(LevelsBefore(diagrams, page.currentLevel))
                 /\ page'.layerDisplay[page'.currentLevel] = "block"
                 /\ err' = ""
            ELSE page' = page /\ err' = ""]_vars

\* navigateDown from the placeholder of context skipped a level without a
\* record and reached the last existing level, where a second call did nothing
C17_Witness ==
    /\ DOMAIN diagrams = {"component", "code"}
    /\ pc = "navigateDown"
    /\ ret = "navigateDown"
    /\ idx = 3
    /\ page.currentLevel = "code"
    /\ page.timers = 3


\* the layout of the displayed level: the sizes of the outer <svg>, of the
\* container rectangle and of the diagram's <svg>
Layout(p) ==
    [svg |-> p.svgSize,
     container |-> IF p.currentLevel \in DOMAIN p.containerSize
                   THEN p.containerSize[p.currentLevel] ELSE <<>>,
     diagram |-> IF p.currentLevel \in DOMAIN p.diagramSize
                 THEN p.diagramSize[p.currentLevel] ELSE <<>>]

\* the layout that the mode, the viewport and the record of the displayed
\* level ask for; a level without a record has no diagram to lay out and its
\* layout is left as it is
LayoutAskedFor(d, p) ==
    LET vw == p.viewport[1]
        vh == p.viewport[2]
        w == d[p.currentLevel].width.num
        h == d[p.currentLevel].height.num
    IN  IF p.currentLevel \notin DOMAIN d THEN Layout(p)
        ELSE IF p.fitToWidth
        THEN [svg |-> <<vw, vh>>,
              container |-> <<vw - 20, vh - 160>>,
              diagram |-> <<vw - 30, vh - 170>>]
        ELSE [svg |-> <<IF vw > w + 30 THEN vw ELSE w + 30,
                        IF vh > h + 170 THEN vh ELSE h + 170>>,
              container |-> <<w + 20, h + 20>>,
              diagram |-> <<w, h>>]

\* the label of the scaling toggle as it reads
FitLabel(p) == TrimSpace(p.fitText)

LabelMatchesMode ==
    page.loaded =>
        /\ FitLabel(page) = "Auto Scale" <=> page.fitToWidth
        /\ FitLabel(page) = "Native Size" <=> ~page.fitToWidth

\* toggleFitMode has just run: the mode is flipped, no timer was set and the
\* layout is the one the new mode asks for
ToggledInHandler ==
    pc = "toggleFitMode" =>
        /\ page.fitToWidth = ~hist[Len(hist)].fitToWidth
        /\ page.timers = hist[Len(hist)].timers
        /\ Layout(page) = LayoutAskedFor(diagrams, page)

\* toggleFitMode has just run twice in a row
ToggledTwice == pc = "toggleFitMode" /\ ret = "toggleFitMode" /\ Len(hist) = 2

\* C18 as stated: the label reads "Auto Scale" exactly in auto-fit mode and
\* "Native Size" exactly in native mode in every reachable state,
\* toggleFitMode recomputes the layout in the handler, and two consecutive
\* toggles restore the mode, the label and the layout of the displayed level.
C18_TwoTogglesRestoreLayout ==
    /\ LabelMatchesMode
    /\ ToggledInHandler
    /\ ToggledTwice =>
          /\ page.fitToWidth = hist[1].fitToWidth
          /\ FitLabel(page) = FitLabel(hist[1])
          /\ Layout(page) = Layout(hist[1])

\* C18 amended: two consecutive toggles restore the mode and the label and
\* leave the layout that the restored mode asks for, which is the layout
\* before the two toggles exactly when that one was up to date (no
\* recomputation of showLevel was still pending on a stale layout).
C18_TwoTogglesRecomputeLayout ==
    /\ LabelMatchesMode
    /\ ToggledInHandler
    /\ ToggledTwice =>
          /\ page.fitToWidth = hist[1].fitToWidth
          /\ FitLabel(page) = FitLabel(hist[1])
          /\ Layout(page) = LayoutAskedFor(diagrams, hist[1])
          /\ Layout(page) = Layout(hist[1])
                <=> Layout(hist[1]) = LayoutAskedFor(diagrams, hist[1])

\* two toggles right after a level switch: the layout before them was the
\* previous level's, the one after them is the new level's
C18_Witness ==
    /\ ToggledTwice
    /\ idx = 3
    /\ page.currentLevel \in DOMAIN diagrams
    /\ Layout(hist[1]) # LayoutAskedFor(diagrams, hist[1])
    /\ Layout(page) = LayoutAskedFor(diagrams, page)
    /\ ~page.fitToWidth
    /\ page.timers = 2


\* toggleNotes has just run: the notes flag is flipped
NotesFlagFlipped ==
    pc = "toggleNotes" => page.notesVisible = ~hist[Len(hist)].notesVisible

\* the group g of the diagram of level l is hidden
Hidden(p, l, g) == p.groupDisplay[l][g] = "none"

FragmentChunks ==
    {"<a>", "</a>", "<b/>", "t", "&amp;", "<", "<?xml version=\"1.0\"?>",
     "<root>t</root>", "<x:root/>"}

InitPretty ==
    /\ Idle
    /\ pc = "call"
    /\ arg \in Texts(FragmentChunks, MaxChunks)
    /\ ret = ""

CallPrettyPrintXML ==
    /\ pc = "call"
    /\ ret' = prettyPrintXML(arg)
    /\ pc' = "printed"
    /\ UNCHANGED <<dir, title, diagrams, idx, err, out, hist, arg, page>>

\* parseSVG on the document around the fragment
CallParseSVGAround ==
    /\ pc = "printed"
    /\ hist' = <<parseSVG("<svg>" \o arg \o "</svg>", "context")>>
    /\ pc' = "return"
    /\ UNCHANGED <<dir, title, diagrams, idx, err, out, arg, ret, page>>

\* prettyPrintXML on what prettyPrintXML returned
CallPrettyPrintXMLAgain ==
    /\ pc = "return"
    /\ out' = prettyPrintXML(ret)
    /\ pc' = "again"
    /\ UNCHANGED <<dir, title, diagrams, idx, err, hist, arg, ret, page>>

SpecPretty ==
    InitPretty /\ [][CallPrettyPrintXML \/ CallParseSVGAround \/ CallPrettyPrintXMLAgain]_vars

\* what the decoder makes of the wrapped fragment
Wrapped(content) ==
    Decode("<root xmlns:xlink=\"http://www.w3.org/1999/xlink\">" \o content \o "</root>")

\* parsing the wrapped fragment fails
ParseFails(content) == Wrapped(content).e # ""

\* the fragment parses and the encoder refuses one of its tokens
SerializeFails(content) ==
    /\ ~ParseFails(content)
    /\ encodeAll(NewEncoder, Wrapped(content).toks).e # ""

\* C20: whenever parsing the wrapped fragment or re-serializing a token
\* fails, prettyPrintXML returns its input unchanged, never a partly
\* serialized prefix and never an error, so that parseSVG does not fail
\* because of it and stores the cleaned fragment as it is.
C20_FailureReturnsInput ==
    /\ pc \in {"printed", "return"} /\ (ParseFails(arg) \/ SerializeFails(arg))
          => ret = arg
    /\ pc = "return" /\ arg # "" =>
          /\ hist[1].e = ""
          /\ LET cleaned == cleanDiagramContent(arg, "context")
             IN  ParseFails(cleaned) \/ SerializeFails(cleaned)
                    => hist[1].info.content = cleaned

\* a fragment whose second token the encoder refuses after it has written the
\* first
C20_Witness ==
    /\ pc = "return"
    /\ arg = "<b/><?xml version=\"1.0\"?>"
    /\ SerializeFails(arg)
    /\ ret = arg
    /\ hist[1].e = ""
    /\ hist[1].info.content = arg


\* the fragment pretty-prints: it parses and every token is encoded
PrintsSuccessfully(content) == ~ParseFails(content) /\ ~SerializeFails(content)

\* C21: pretty-printing is idempotent up to whitespace: for every fragment f
\* that pretty-prints successfully, prettyPrintXML(prettyPrintXML(f)) equals
\* prettyPrintXML(f) modulo leading and trailing whitespace.
C21_PrettyPrintIdempotent ==
    pc = "again" /\ PrintsSuccessfully(arg) => TrimSpace(out) = TrimSpace(ret)


\* the run is over, or loadDiagrams is
AfterLoad == pc \in {"build", "done", "failed"}

\* C22 as stated: if no file of the directory produced a record (an empty
\* directory, or only unmatched files), loadDiagrams returns the error
\* "no C4 SVG files found" and no composite document is built or written.
C22_NoRecordGivesNoFilesError ==
    AfterLoad /\ (\A i \in 1..Len(dir) : extractLevel(dir[i].name) = "unknown") =>
        /\ pc = "failed"
        /\ err = "no C4 SVG files found"
        /\ out = ""

\* C22 amended: if every file of the directory was scanned without error and
\* none produced a record, loadDiagrams returns the error
\* "no C4 SVG files found"; a file that cannot be read or is not well-formed
\* ends the run with its own error instead, matched or not.  In both cases
\* no composite document is built or written, and the error
\* "no C4 SVG files found" is returned in no other case.
C22_NoRecordAfterFullScan ==
    /\ AfterLoad /\ DOMAIN diagrams = {} =>
          /\ pc = "failed"
          /\ out = ""
          /\ IF idx > Len(dir)
             THEN err = "no C4 SVG files found"
             ELSE err = hist[idx].e /\ err # "no C4 SVG files found"
    /\ err = "no C4 SVG files found" => DOMAIN diagrams = {} /\ idx > Len(dir)

\* a directory of one well-formed file that matches no level
C22_Witness ==
    /\ pc = "failed"
    /\ Len(dir) = 1
    /\ idx = 2
    /\ extractLevel(dir[1].name) = "unknown"
    /\ hist[1].e = ""
    /\ err = "no C4 SVG files found"
    /\ out = ""


(***************************************************************************)
(* parseArgsSlice: [inputDir, outputFile, title, err], err the error's     *)
(* text, "" for nil                                                        *)
(***************************************************************************)
ArgsError(e) == [inputDir |-> "", outputFile |-> "", title |-> "", err |-> e]

\* the error of the first loop for one argument, "" when it goes on
subcommandOf(a) ==
    IF a = "prompt" THEN "prompt"
    ELSE IF a \in {"-h", "--help"} THEN "help"
    ELSE IF a \in {"-v", "--version"} THEN "version"
    ELSE ""

\* the second loop from index i (0-based in the program, args[i + 1] here) with
\* the results so far in r
RECURSIVE parseOptions(_, _, _)
parseOptions(args, i, r) ==
    LET a == args[i + 1]
    IN  IF ~(i < Len(args)) THEN r
        ELSE IF a = "--output"
        THEN IF i + 1 < Len(args)
             THEN parseOptions(args, i + 2, [r EXCEPT !.outputFile = args[i + 2]])
             ELSE ArgsError("--output requires an argument")
        ELSE IF a = "--title"
        THEN IF i + 1 < Len(args)
             THEN parseOptions(args, i + 2, [r EXCEPT !.title = args[i + 2]])
             ELSE ArgsError("--title requires an argument")
        ELSE IF a \in {"-h", "--help", "-v", "--version"}
        THEN parseOptions(args, i + 1, r)
        ELSE ArgsError("unknown flag: " \o a)

\* a variant of parseArgsSlice without the first loop
parseArgsSlice_optionsOnly(args) ==
    IF Len(args) < 1 THEN ArgsError("directory argument required")
    ELSE parseOptions(args, 1, [inputDir |-> args[1], outputFile |-> "", title |-> "",
                                err |-> ""])

parseArgsSlice(args) ==
    LET first == {i \in 1..Len(args) : subcommandOf(args[i]) # ""}
    IN  IF Len(args) < 1 THEN ArgsError("directory argument required")
        ELSE IF first # {} THEN ArgsError(subcommandOf(args[Min(first)]))
        ELSE parseOptions(args, 1, [inputDir |-> args[1], outputFile |-> "", title |-> "",
                                    err |-> ""])

MaxArgs == 3

ArgTokens == {"./examples", "--output", "--title", "-h", "--help", "-v", "--version",
              "prompt", "--unknown", "out.svg"}

InitArgs ==
    /\ Idle
    /\ pc = "call"
    /\ arg \in UNION {[1..n -> ArgTokens] : n \in 0..MaxArgs}
    /\ ret = ""

CallParseArgsSlice ==
    /\ pc = "call"
    /\ ret' = parseArgsSlice(arg)
    /\ pc' = "return"
    /\ UNCHANGED <<dir, title, diagrams, idx, err, out, hist, arg, page>>

SpecArgs == InitArgs /\ [][CallParseArgsSlice]_vars


Subcommands == {"prompt", "-h", "--help", "-v", "--version"}

Options == {"--output", "--title"}

\* the error and the results the statement of C23 gives for args, read by
\* position: an option is any --output or --title, its value the argument
\* after it
StatedError(args) ==
    \/ args = <<>>
    \/ \E i \in 1..Len(args) : args[i] \in Subcommands
    \/ args[Len(args)] \in Options
    \/ \E i \in 2..Len(args) :
          args[i] \notin Options \cup Subcommands /\ args[i - 1] \notin Options

StatedValue(args, option, v) ==
    IF \A k \in 1..Len(args) : args[k] # option THEN v = ""
    ELSE \E k \in 1..(Len(args) - 1) : args[k] = option /\ v = args[k + 1]

\* C23 as stated: parseArgsSlice returns an error exactly when the argument
\* list is empty, or contains "prompt", -h, --help, -v or --version at any
\* position, or ends with --output or --title without a following value, or
\* contains another token after the directory that is none of these flags;
\* otherwise it returns the first argument as the directory and the values
\* following --output and --title, the empty string for an option not given.
C23_ErrorExactlyAsStated ==
    pc = "return" =>
        /\ ret.err # "" <=> StatedError(arg)
        /\ ret.err = "" =>
              /\ ret.inputDir = arg[1]
              /\ StatedValue(arg, "--output", ret.outputFile)
              /\ StatedValue(arg, "--title", ret.title)

\* the positions after the first where parseArgsSlice looks for a flag: the
\* second argument, and after a flag the next argument, or the next but one
\* when the flag is --output or --title, whose value the next one is
RECURSIVE FlagPositionsFrom(_, _)
FlagPositionsFrom(args, i) ==
    IF i > Len(args) THEN {}
    ELSE {i} \cup FlagPositionsFrom(args, IF args[i] \in Options THEN i + 2 ELSE i + 1)

FlagPositions(args) == FlagPositionsFrom(args, 2)

\* the value of the last option of that name in a flag position, "" without one
ValueOf(args, option) ==
    LET given == {p \in FlagPositions(args) : args[p] = option /\ p < Len(args)}
    IN  IF given = {} THEN "" ELSE args[Max(given) + 1]

\* C23 amended: parseArgsSlice returns an error exactly when the argument
\* list is empty, or contains "prompt", -h, --help, -v or --version at any
\* position, or, reading the arguments after the first from left to right
\* with each --output and --title taking the next argument as its value
\* whatever that is, an --output or --title is the last argument or an
\* argument in flag position is neither; otherwise it returns the first
\* argument as the directory, even when it is --output or --title, and for
\* each option the value of its last occurrence in flag position, the empty
\* string for an option not given.
C23_ErrorExactlyByFlagPosition ==
    pc = "return" =>
        /\ ret.err # "" <=>
              \/ arg = <<>>
              \/ \E i \in 1..Len(arg) : arg[i] \in Subcommands
              \/ \E p \in FlagPositions(arg) :
                    arg[p] \notin Options \/ p = Len(arg)
        /\ ret.err = "" =>
              /\ ret.inputDir = arg[1]
              /\ ret.outputFile = ValueOf(arg, "--output")
              /\ ret.title = ValueOf(arg, "--title")
        /\ ret.err # "" => ret.inputDir = "" /\ ret.outputFile = "" /\ ret.title = ""

\* --output takes --title as its value: no error, although the list ends with
\* --title
C23_Witness ==
    /\ pc = "return"
    /\ arg = <<"./examples", "--output", "--title">>
    /\ ret = [inputDir |-> "./examples", outputFile |-> "--title", title |-> "", err |-> ""]


\* the tokens of the fragment itself: those of the wrapped fragment without
\* the start token and the end token of the wrapper
FragmentTokens(content) ==
    LET toks == Wrapped(content).toks
    IN  SubSeq(toks, 2, Len(toks) - 1)

\* the fragment has an element named root, with or without a prefix
HasRootElement(content) ==
    \E i \in 1..Len(FragmentTokens(content)) :
        /\ FragmentTokens(content)[i].k = "start"
        /\ FragmentTokens(content)[i].name.local = "root"

\* C24: prettyPrintXML re-emits every token of the fragment and drops only
\* the start and end tokens of the synthetic wrapper: an element of the
\* fragment itself that is named root, at any depth, with or without a
\* prefix, is still emitted in the output.
C24_FragmentRootElementKept ==
    pc = "printed" /\ PrintsSuccessfully(arg) /\ HasRootElement(arg)
        => Contains(ret, "root")


\* the pointer has entered a link and left it again, the last two events
HoverRoundTrip == pc = "mouseleave" /\ ret = "mouseenter" /\ Len(hist) = 2

\* C25: a pointer-enter on a link followed by the pointer-leave restores the
\* state before the enter: the link group is back at its original position
\* among its parent's children, the opacity of the highlight background is
\* back to 0 and the class highlighted is removed.
C25_HoverRoundTrip ==
    HoverRoundTrip =>
        /\ page.linkOrder = hist[1].linkOrder
        /\ page.raised = hist[1].raised
        /\ page.highlighted = hist[1].highlighted
        /\ page.dimmed = hist[1].dimmed


\* the handler that ran last ends with, or is, a call of resizeContainers
JustResized == pc \in {"load", "timer", "resize", "toggleFitMode"}

\* the native size of the displayed diagram, as diagramData has it
NativeSize(d, p) == <<d[p.currentLevel].width.num, d[p.currentLevel].height.num>>

\* the larger of a and b
Larger(a, b) == IF a > b THEN a ELSE b

\* the outer <svg> is, on each axis, the larger of the viewport and the
\* native size plus the margin of that axis
RootCoversNative(d, p) ==
    /\ p.svgSize[1] = Larger(p.viewport[1], NativeSize(d, p)[1] + 30)
    /\ p.svgSize[2] = Larger(p.viewport[2], NativeSize(d, p)[2] + 170)

\* C26 as stated: in native mode resizeContainers sets the root canvas, on
\* each axis independently, to the larger of the viewport size and the
\* displayed diagram's native size plus a fixed margin, and sets both the
\* container rectangle and the inner diagram element to the diagram's exact
\* native width and height.
C26_NativeContainerExact ==
    JustResized /\ ~page.fitToWidth /\ page.currentLevel \in DOMAIN diagrams =>
        /\ RootCoversNative(diagrams, page)
        /\ page.containerSize[page.currentLevel] = NativeSize(diagrams, page)
        /\ page.diagramSize[page.currentLevel] = NativeSize(diagrams, page)

\* C26 amended: the inner diagram element gets the diagram's exact native
\* width and height and the container rectangle the native size plus 20 on
\* each axis; the root canvas is the larger of the viewport and the native
\* size plus 30 in width and plus 170 in height, so that the diagram is
\* never rendered below its native size and lies within the root canvas for
\* any viewport.
C26_NativeContainerPadded ==
    JustResized /\ ~page.fitToWidth /\ page.currentLevel \in DOMAIN diagrams =>
        /\ RootCoversNative(diagrams, page)
        /\ page.containerSize[page.currentLevel]
              = <<NativeSize(diagrams, page)[1] + 20, NativeSize(diagrams, page)[2] + 20>>
        /\ page.diagramSize[page.currentLevel] = NativeSize(diagrams, page)
        /\ page.svgSize[1] >= page.diagramSize[page.currentLevel][1] + 30
        /\ page.svgSize[2] >= page.diagramSize[page.currentLevel][2] + 170

\* a timer of showLevel has laid out a 500x400 diagram in the 300x200
\* viewport: the root canvas is larger than the viewport on both axes
C26_Witness ==
    /\ pc = "timer"
    /\ ~page.fitToWidth
    /\ page.viewport = <<300, 200>>
    /\ page.currentLevel = "container"
    /\ page.svgSize = <<530, 570>>
    /\ page.containerSize["container"] = <<520, 420>>
    /\ page.diagramSize["container"] = <<500, 400>>


\* what the current displayed level, scaling mode and viewport alone give as
\* layout: the layout asked for when the level has a record, and the sizes
\* the document was written with when it has none
LayoutOfState(d, p) ==
    IF p.currentLevel \in DOMAIN d THEN LayoutAskedFor(d, p)
    ELSE [svg |-> <<1920, 1080>>, container |-> <<>>, diagram |-> <<>>]

\* C27: layout recomputation is a pure function of the current state: for
\* every interleaving of level switches, mode toggles, resize events and the
\* timers of showLevel, once no timer is pending the sizes of the root
\* canvas, the container and the diagram of the displayed level are those
\* computed from the current displayed level, scaling mode and viewport
\* alone, and running resizeContainers twice in a row changes nothing the
\* second time.
C27_LayoutIsFunctionOfState ==
    /\ pc # "parsed" /\ page.timers = 0 => Layout(page) = LayoutOfState(diagrams, page)
    /\ pc = "timer" /\ ret \in {"load", "timer", "resize", "toggleFitMode"}
          => page = [hist[Len(hist)] EXCEPT !.timers = @ - 1]
    /\ pc # "parsed"
          => resizeContainers(diagrams, resizeContainers(diagrams, page))
                = resizeContainers(diagrams, page)

\* the timers of the load and of a level switch have both fired, one after
\* the other, in the small viewport
C27_Witness ==
    /\ pc = "timer"
    /\ ret = "timer"
    /\ idx = 3
    /\ page.timers = 0
    /\ page.currentLevel \in DOMAIN diagrams \ {"context"}
    /\ page.viewport = <<300, 200>>
    /\ Layout(page) # Layout(hist[1])


\* C28: after any sequence of level switches, returns to a level shown
\* before included, no labelled link holds more than one hit region and one
\* highlight background, nor more than one pointer-enter and one
\* pointer-leave handler, and a labelled link of a level that has been shown
\* holds exactly one of each: the overlays are not created again when a
\* level is shown again.
C28_OverlaysCreatedOnce ==
    pc # "parsed" =>
        \A l \in DOMAIN diagrams, g \in Labelled :
            /\ page.overlays[l][g] <= 1
            /\ page.hovering[l] <= 1
            /\ page.script = "part_004" /\ page.currentLevel = l => page.overlays[l][g] = 1


\* C29: every level switch made through a navigation button, navigateDown
\* or navigateUp goes to a level that has a record, and once the displayed
\* level has a record it has one in every later state, whatever show,
\* navigate, toggle, resize, timer and hover events follow.
C29_SwitchesStayOnExistingLevels ==
    [][/\ Handles("showLevel") => page'.currentLevel \in DOMAIN diagrams
       /\ (Handles("navigateDown") \/ Handles("navigateUp"))
            /\ page'.currentLevel # page.currentLevel
            => page'.currentLevel \in DOMAIN diagrams
       /\ pc # "parsed" /\ page.currentLevel \in DOMAIN diagrams
            => page'.currentLevel \in DOMAIN diagrams]_vars

\* from the placeholder of context, navigateDown has gone to the first level
\* with a record, past a level without one, and later events have kept the
\* page there
C29_Witness ==
    /\ DOMAIN diagrams = {"component", "code"}
    /\ idx = 2
    /\ ret = "navigateDown"
    /\ pc = "toggleFitMode"
    /\ hist[1].currentLevel = "context"
    /\ hist[2].currentLevel = "component"
    /\ page.currentLevel = "component"


(***************************************************************************)
(* CreateStackedSVG on a directory with .puml files.  arg is what the run  *)
(* finds outside the program: how many .puml files the directory has and   *)
(* how many of them are numbered 01- to 04-, and whether MkdirTemp,        *)
(* LookPath, the PlantUML process, loadDiagrams and the write succeed.     *)
(* ret is the stacker's tempDir, whether the directory of that name is on  *)
(* disk, and whether the deferred clean-up has been registered.            *)
(***************************************************************************)
MaxPuml == 3

Environments ==
    [puml : 0..MaxPuml, numbered : 0..MaxPuml, mkdirTemp : BOOLEAN, lookPath : BOOLEAN,
     plantuml : BOOLEAN, load : BOOLEAN, write : BOOLEAN]

InitPuml ==
    /\ Idle
    /\ pc = "hasPumlFiles"
    /\ arg \in {e \in Environments : e.numbered <= e.puml}
    /\ ret = [tempDir |-> "", onDisk |-> FALSE, deferred |-> FALSE]

\* the step of CreateStackedSVG at pc goes on at next, or fails with e
Step(at, next, e, r) ==
    /\ pc = at
    /\ pc' = IF e # "" THEN "return" ELSE next
    /\ err' = e
    /\ ret' = r
    /\ UNCHANGED <<dir, title, diagrams, idx, out, hist, arg, page>>

\* hasPumlFiles and the test of hasPuml
HasPumlFiles ==
    \E hasPuml \in {arg.puml > 0} :
        Step("hasPumlFiles", IF hasPuml THEN "findNumberedPumlFiles" ELSE "loadDiagrams",
             "", ret)

\* generateSVGsFromPuml up to the test of len(pumlFiles)
FindNumberedPumlFiles ==
    \E pumlFiles \in {arg.numbered} :
        Step("findNumberedPumlFiles", "MkdirTemp",
             IF pumlFiles < 3 THEN "expected at least 3 numbered .puml files" ELSE "", ret)

\* os.MkdirTemp and s.tempDir = tempDir
MkdirTemp ==
    IF arg.mkdirTemp
    THEN Step("MkdirTemp", "LookPath", "",
              [ret EXCEPT !.tempDir = "svg-stacker-1", !.onDisk = TRUE])
    ELSE Step("MkdirTemp", "LookPath", "mkdir error", ret)

\* exec.LookPath("plantuml")
LookPath ==
    \E found \in {arg.lookPath} :
        Step("LookPath", "plantuml", IF found THEN "" ELSE "plantuml not found in PATH", ret)

\* cmd.CombinedOutput, and after it the return of generateSVGsFromPuml to
\* CreateStackedSVG, which registers the deferred clean-up
RunPlantUML ==
    IF arg.plantuml
    THEN Step("plantuml", "loadDiagrams", "", [ret EXCEPT !.deferred = TRUE])
    ELSE Step("plantuml", "loadDiagrams", "plantuml failed", ret)

\* loadDiagrams, by its result
LoadDiagrams ==
    \E loaded \in {arg.load} :
        Step("loadDiagrams", "write", IF loaded THEN "" ELSE "load error", ret)

\* buildStackedSVG and the write
WriteStackedSVG ==
    \E written \in {arg.write} :
        Step("write", "return", IF written THEN "" ELSE "write error", ret)

\* the return of CreateStackedSVG: the deferred function runs if registered
Return ==
    /\ pc = "return"
    /\ pc' = "returned"
    /\ ret' = IF ret.deferred /\ ret.tempDir # "" THEN [ret EXCEPT !.onDisk = FALSE] ELSE ret
    /\ UNCHANGED <<dir, title, diagrams, idx, err, out, hist, arg, page>>

NextPuml ==
    \/ HasPumlFiles
    \/ FindNumberedPumlFiles
    \/ MkdirTemp
    \/ LookPath
    \/ RunPlantUML
    \/ LoadDiagrams
    \/ WriteStackedSVG
    \/ Return

SpecPuml == InitPuml /\ [][NextPuml]_vars

\* C30: whenever CreateStackedSVG has created a temporary directory for the
\* PlantUML output, that directory has been removed by the time
\* CreateStackedSVG returns, on the success path and on every error path.
C30_TempDirRemovedOnReturn ==
    pc = "returned" => ~ret.onDisk

=============================================================================
